---- MODULE Spec2Model ----
(***************************************************************************)
(* A model of the casatables glue layer (src/casatables/src/glue.cc and    *)
(* glue.h): the extern "C" entry points through which a host language      *)
(* drives the casacore table engine.                                       *)
(*                                                                         *)
(* Three specifications share the variables:                               *)
(*   SpecExc  the exception boundary of every entry point (try/catch       *)
(*            structure, return kinds, handle_exception on ExcInfo);       *)
(*   Spec     one table with one column and the cell/column entry points,  *)
(*            plus a row cursor over it;                                   *)
(*   SpecRec  one TableRecord and the tablerec_* entry points.             *)
(***************************************************************************)
EXTENDS Integers, Sequences, FiniteSets, TLC

VARIABLES table, rec, row, host, exc, last, io, heap

vars == <<table, rec, row, host, exc, last, io, heap>>

(***************************************************************************)
(* Small helpers.                                                          *)
(***************************************************************************)
Min(a, b) == IF a < b THEN a ELSE b

\* n copies of s (by halving, so that long strings need little recursion)
RECURSIVE Repeat(_, _)
Repeat(s, n) ==
    IF n <= 0 THEN ""
    ELSE IF n = 1 THEN s
    ELSE LET h == Repeat(s, n \div 2)
         IN  h \o h \o (IF n % 2 = 1 THEN s ELSE "")

\* the characters of s from position from (1-based) to its end
StrFrom(s, from) == IF from > Len(s) THEN "" ELSE SubSeq(s, from, Len(s))

\* t occurs in s
Contains(s, t) ==
    \E i \in 1..(Len(s) - Len(t) + 1) : SubSeq(s, i, i + Len(t) - 1) = t

(***************************************************************************)
(* ExcInfo (glue.h): char message[512].  The buffer is modelled byte for   *)
(* byte as a string of BufSize characters; NUL stands for the byte 0 (no   *)
(* message text of the program contains that character).  A string longer  *)
(* than BufSize means bytes behind the buffer were written.                *)
(***************************************************************************)
BufSize == 512

NUL == "@"

Garbage == Repeat("?", BufSize)

Zeroed == Repeat(NUL, BufSize)

\* index (0-based) of the first NUL of buf in lo..hi-1, -1 if none
RECURSIVE FirstNulIn(_, _, _)
FirstNulIn(buf, lo, hi) ==
    IF lo >= hi THEN -1
    ELSE IF hi = lo + 1
         THEN (IF SubSeq(buf, lo + 1, lo + 1) = NUL THEN lo ELSE -1)
    ELSE LET mid == (lo + hi) \div 2
             l == FirstNulIn(buf, lo, mid)
         IN  IF l >= 0 THEN l ELSE FirstNulIn(buf, mid, hi)

\* index of the first NUL of buf, Len(buf) if it holds none
FirstNul(buf) ==
    LET i == FirstNulIn(buf, 0, Len(buf)) IN IF i < 0 THEN Len(buf) ELSE i

\* the C string held by buf: the bytes before its first NUL
CStr(buf) == SubSeq(buf, 1, FirstNul(buf))

\* strncpy(dst, src, n): min(strlen(src), n) bytes of src, then NUL padding
\* up to n bytes in all; the rest of dst is left as it was
strncpy(dst, src, n) ==
    IF Len(src) >= n
    THEN SubSeq(src, 1, n) \o StrFrom(dst, n + 1)
    ELSE src \o SubSeq(Zeroed, 1, n - Len(src)) \o StrFrom(dst, n + 1)

\* strcpy(dst, src): the bytes of src and its terminating NUL
strcpy(dst, src) == src \o NUL \o StrFrom(dst, Len(src) + 2)

\* dst[idx] = ch   (idx 0-based)
StoreChar(dst, idx, ch) ==
    IF idx >= Len(dst)
    THEN dst \o Repeat("?", idx - Len(dst)) \o ch
    ELSE SubSeq(dst, 1, idx) \o ch \o StrFrom(dst, idx + 2)

GenericMsg == "unidentifiable C++ exception occurred"

\* A C++ exception in flight: one derived from std::exception carries
\* what(); anything else carries nothing.
StdExc(what) == [kind |-> "std", what |-> what]

OtherExc == [kind |-> "other", what |-> ""]

NoExc == [kind |-> "none", what |-> ""]

\* (handle_exception without its `message[sizeof - 1] = 0` line)
handle_exception_noterm(e, message) ==
    IF e.kind = "std"
    THEN strncpy(message, e.what, BufSize - 1)
    ELSE strcpy(message, GenericMsg)

\* handle_exception(exc): rethrow the exception in flight and classify it
handle_exception(e, message) ==
    IF e.kind = "std"
    THEN StoreChar(strncpy(message, e.what, BufSize - 1), BufSize - 1, NUL)
    ELSE strcpy(message, GenericMsg)

(***************************************************************************)
(* GlueDataType (glue.h, copied from casacore's DataType), in enum order.  *)
(***************************************************************************)
DataTypes ==
    << "TpBool", "TpChar", "TpUChar", "TpShort", "TpUShort", "TpInt", "TpUInt",
       "TpFloat", "TpDouble", "TpComplex", "TpDComplex", "TpString", "TpTable",
       "TpArrayBool", "TpArrayChar", "TpArrayUChar", "TpArrayShort",
       "TpArrayUShort", "TpArrayInt", "TpArrayUInt", "TpArrayFloat",
       "TpArrayDouble", "TpArrayComplex", "TpArrayDComplex", "TpArrayString",
       "TpRecord", "TpOther", "TpQuantity", "TpArrayQuantity", "TpInt64",
       "TpArrayInt64" >>

AllTags == {DataTypes[i] : i \in 1..Len(DataTypes)}

ArrayTags == {t \in AllTags : Len(t) > 7 /\ SubSeq(t, 1, 7) = "TpArray"}

ScalarTags == AllTags \ ArrayTags

\* the array tag of an element tag and back (TpInt <-> TpArrayInt)
AsArray(t) == "TpArray" \o StrFrom(t, 3)

\* The C++ value types the dispatch macros instantiate, with the width of
\* each (the sizeof() that data_type_get_element_size returns) and the
\* element tag of the columns and fields a typed accessor of it accepts.
CppTypes ==
    [ Bool     |-> [size |-> 1,  tag |-> "TpBool"],
      Char     |-> [size |-> 1,  tag |-> "TpChar"],
      uChar    |-> [size |-> 1,  tag |-> "TpUChar"],
      Short    |-> [size |-> 2,  tag |-> "TpShort"],
      uShort   |-> [size |-> 2,  tag |-> "TpUShort"],
      Int      |-> [size |-> 4,  tag |-> "TpInt"],
      uInt     |-> [size |-> 4,  tag |-> "TpUInt"],
      float    |-> [size |-> 4,  tag |-> "TpFloat"],
      double   |-> [size |-> 8,  tag |-> "TpDouble"],
      Complex  |-> [size |-> 8,  tag |-> "TpComplex"],
      DComplex |-> [size |-> 16, tag |-> "TpDComplex"],
      Int64    |-> [size |-> 8,  tag |-> "TpInt64"],
      String   |-> [size |-> 0,  tag |-> "TpString"] ]

SizeOf(cpp) == CppTypes[cpp].size

\* the C++ type that holds an element of tag t ("" if there is none)
CppOf(t) ==
    IF \E c \in DOMAIN CppTypes : CppTypes[c].tag = t
    THEN CHOOSE c \in DOMAIN CppTypes : CppTypes[c].tag = t
    ELSE ""

\* the switch of data_type_get_element_size: the type whose sizeof() each
\* case returns (the cases that return -1 are left out)
data_type_get_element_size_CASE ==
    [ TpBool |-> "Bool", TpChar |-> "Char", TpUChar |-> "uChar",
      TpShort |-> "Short", TpUShort |-> "uShort", TpInt |-> "Int",
      TpUInt |-> "uInt", TpFloat |-> "float", TpDouble |-> "double",
      TpComplex |-> "Complex", TpDComplex |-> "DComplex",
      TpArrayBool |-> "Bool", TpArrayChar |-> "Char", TpArrayUChar |-> "uChar",
      TpArrayShort |-> "Short", TpArrayUShort |-> "uShort", TpArrayInt |-> "Int",
      TpArrayUInt |-> "uInt", TpArrayFloat |-> "float",
      TpArrayDouble |-> "double", TpArrayComplex |-> "Complex",
      TpArrayDComplex |-> "DComplex", TpInt64 |-> "Int64",
      TpArrayInt64 |-> "Int64" ]

\* (a switch whose array cases return -1)
data_type_get_element_size_scalars(ty) ==
    IF ty \in DOMAIN data_type_get_element_size_CASE \cap ScalarTags
    THEN SizeOf(data_type_get_element_size_CASE[ty])
    ELSE -1

data_type_get_element_size(ty) ==
    IF ty \in DOMAIN data_type_get_element_size_CASE
    THEN SizeOf(data_type_get_element_size_CASE[ty])
    ELSE -1

NumericTags == {CppTypes[c].tag : c \in DOMAIN CppTypes \ {"String"}}

(***************************************************************************)
(* Values.  An element of a numeric kind is its object representation: a   *)
(* sequence of sizeof bytes, least significant first.  A string element    *)
(* is a string.  A stored value (cell or field) is a shape in native axis  *)
(* order (empty for a scalar) and its elements in memory order.            *)
(***************************************************************************)
\* 0, 1, all bits set (-1 signed, the maximum unsigned) and the sign bit
\* alone (the most negative signed value)
ScalarValues(cpp) ==
    IF cpp = "Bool" THEN {<<0>>, <<1>>}
    ELSE LET w == SizeOf(cpp)
         IN  { [i \in 1..w |-> 0],
               [i \in 1..w |-> IF i = 1 THEN 1 ELSE 0],
               [i \in 1..w |-> 255],
               [i \in 1..w |-> IF i = w THEN 128 ELSE 0] }

ZeroOf(cpp) == [i \in 1..SizeOf(cpp) |-> 0]

\* the byte read from behind the end of a caller's buffer
Stray == 170

\* *(CPPTYPE *) p : the sizeof(CPPTYPE) bytes at p
ReadAs(cpp, bytes) ==
    [i \in 1..SizeOf(cpp) |-> IF i <= Len(bytes) THEN bytes[i] ELSE Stray]

RECURSIVE Product(_)
Product(shape) ==
    IF shape = <<>> THEN 1 ELSE Head(shape) * Product(Tail(shape))

Reverse(s) == [i \in 1..Len(s) |-> s[Len(s) + 1 - i]]

\* the dimensionality the describe calls can report (unsigned long dims[8])
MaxDims == 8

\* the highest rank a host shape takes in the model
MaxRank == 9

\* a host-order shape of rank n: first extent 3, second 2, the rest 1
HostShape(n) == [i \in 1..n |-> IF i = 1 THEN 3 ELSE IF i = 2 THEN 2 ELSE 1]

HostShapes == {HostShape(n) : n \in 1..MaxRank}

\* the numeric elements a host passes for an array of k elements
HostElems(cpp, k) ==
    [j \in 1..k |-> [i \in 1..SizeOf(cpp) |-> IF i = 1 THEN j ELSE 0]]

HostStrings(k) == [j \in 1..k |-> SubSeq("abcdef", 1, (j - 1) % 4)]

(***************************************************************************)
(* StringBridge (glue.h): a pointer and a byte count.  The bytes at the    *)
(* pointer are modelled as a string.                                       *)
(***************************************************************************)
SB(s) == [data |-> s, n_bytes |-> Len(s)]

\* (bridge_string taking every byte behind the pointer)
bridge_string_whole(input) == input.data

\* bridge_string: casacore::String(input.data, input.n_bytes)
bridge_string(input) == SubSeq(input.data, 1, input.n_bytes)

\* bridge_string_array: the elements of source, bridged one by one in the
\* order the array iterator visits the array (its memory order)
bridge_string_array(source, shape) ==
    [n \in 1..Product(shape) |-> bridge_string(source[n])]

\* std::runtime_error(what), thrown by the glue code itself
RuntimeError(what) == StdExc(what)

(***************************************************************************)
(* The native engine (casacore), as far as the glue code relies on it.     *)
(*                                                                         *)
(* A column description: the element tag (dataType()), whether the cells   *)
(* are arrays, whether the shape is fixed, the declared shape and the      *)
(* declared dimensionality (-1: none declared).  A cell: whether it holds  *)
(* a value, and the value.                                                 *)
(***************************************************************************)
\* casacore::AipsError(what), raised by the engine
Native(what) == StdExc("casacore: " \o what)

ColumnDesc(elem, array, fixed, shape, ndim) ==
    [elem |-> elem, array |-> array, fixed |-> fixed, shape |-> shape, ndim |-> ndim]

Value(shape, data) == [def |-> TRUE, shape |-> shape, data |-> data]

Undefined == [def |-> FALSE, shape |-> <<>>, data |-> <<>>]

NoTable == [live |-> FALSE, cols |-> <<>>, nrow |-> 0, cells |-> <<>>]

NoRecord == [live |-> FALSE, fields |-> <<>>]

NoRow == [live |-> FALSE, writable |-> FALSE, fields |-> <<>>]

HasColumn(t, c) == c \in DOMAIN t.cols

\* ColumnDesc::trueDataType(): the array tag for an array column
trueDataType(d) == IF d.array THEN AsArray(d.elem) ELSE d.elem

\* TableColumn(table, name)
TableColumn(t, c) ==
    IF HasColumn(t, c) THEN NoExc
    ELSE Native("Table column " \o c \o " is unknown")

\* ScalarColumn<cpp>(table, name): the column must hold scalars of cpp
ScalarColumn(t, c, cpp) ==
    IF ~HasColumn(t, c) THEN Native("Table column " \o c \o " is unknown")
    ELSE IF t.cols[c].array THEN Native("column " \o c \o " is not a scalar column")
    ELSE IF t.cols[c].elem # CppTypes[cpp].tag
         THEN Native("invalid data type for column " \o c)
    ELSE NoExc

\* ArrayColumn<cpp>(table, name): the column must hold arrays of cpp
ArrayColumn(t, c, cpp) ==
    IF ~HasColumn(t, c) THEN Native("Table column " \o c \o " is unknown")
    ELSE IF ~t.cols[c].array THEN Native("column " \o c \o " is not an array column")
    ELSE IF t.cols[c].elem # CppTypes[cpp].tag
         THEN Native("invalid data type for column " \o c)
    ELSE NoExc

\* the row number is checked by the engine
RowCheck(t, rown) ==
    IF rown < t.nrow THEN NoExc ELSE Native("row number exceeds #rows")

\* col.put(row, array): the shape must conform to what the column declares
ArrayPutCheck(d, shape) ==
    IF d.fixed /\ shape # d.shape THEN Native("shape mismatch with fixed column shape")
    ELSE IF ~d.fixed /\ d.ndim > 0 /\ Len(shape) # d.ndim
         THEN Native("dimensionality mismatch with column")
    ELSE NoExc

\* the table with the cell (c, rown) set to v
WithCell(t, c, rown, v) == [t EXCEPT !.cells[c][rown] = v]

\* shape[i] for an IPosition: an index past its end reads a stray value
ShapeAt(shape, i) == IF i < Len(shape) THEN shape[i + 1] ELSE Stray

Raises(e) == e.kind # "none"

(***************************************************************************)
(* What a call hands back besides its return value: the out-parameters it  *)
(* wrote (by name), their values, the elements it wrote into the caller's  *)
(* data buffer and the strings it passed to the callback, in order.  dims  *)
(* is the set of <<index, value>> stores into the caller's dims[8].        *)
(***************************************************************************)
NoOut ==
    [wrote |-> {}, data_type |-> "", n_dim |-> 0, dims |-> {}, n_rows |-> 0,
     is_scalar |-> 0, is_fixed_shape |-> 0, data |-> <<>>, cb |-> <<>>]

\* the pointer a call handed back or was handed: the object it points to
\* (its address, 0 for NULL) and the part of the object it points at
NullPtr == [obj |-> 0, part |-> "null"]

\* the objects the calls allocated, by address
NoHeap == [objs |-> <<>>]

\* the arguments of a call next to its handle, the tag its switch
\* dispatched on, what it handed back, whether it read through the data
\* pointer and whether it changed the object behind the handle; for the
\* calls that make, free or look into a handle, the mode, the handle they
\* were given (and the one they were given as destination) and the pointer
\* they returned; for the calls that declare a column, the host shape and
\* the two flags they were given; for the calls that hand their work to
\* another entry point, that entry point and the status it returned
NoIO ==
    [name |-> "", rown |-> 0, data_type |-> "", n_dims |-> 0, tag |-> "",
     out |-> NoOut, deref |-> FALSE, changed |-> FALSE,
     mode |-> "", arg |-> NullPtr, dest |-> NullPtr, ptr |-> NullPtr,
     dims |-> <<>>, direct |-> FALSE, undefined |-> FALSE,
     inner |-> [fn |-> "", ret |-> 0]]

\* what the host passed to the put that last succeeded
NoPut ==
    [fn |-> "none", name |-> "", rown |-> 0, data_type |-> "", n_dims |-> 0,
     dims |-> <<>>, data |-> <<>>]

\* (the same loop with shape[i] = dims[i])
IPositionSame(n_dims, dims) == [i \in 1..n_dims |-> dims[i]]

\* casacore::IPosition shape(n_dims); shape[i] = dims[n_dims - 1 - i]
IPositionFrom(n_dims, dims) == [i \in 1..n_dims |-> dims[n_dims + 1 - i]]

\* for (i = 0; i < n_dim; i++) dims[n_dim - 1 - i] = shape[i]
DimsFrom(n_dim, shape) ==
    {<<n_dim - 1 - i, ShapeAt(shape, i)>> : i \in 0..(n_dim - 1)}

\* the elements an Array<cpp> of the given shape takes from the buffer
\* it shares with the caller
ArrayFrom(cpp, shape, data) ==
    [j \in 1..Product(shape) |->
        IF j <= Len(data) THEN ReadAs(cpp, data[j]) ELSE ReadAs(cpp, <<>>)]

(***************************************************************************)
(* table_put_cell                                                          *)
(***************************************************************************)
table_put_cell_SCALAR_CASE ==
    [ TpBool |-> "Bool", TpChar |-> "Char", TpUChar |-> "uChar",
      TpShort |-> "Short", TpUShort |-> "uShort", TpInt |-> "Int",
      TpUInt |-> "uInt", TpFloat |-> "float", TpDouble |-> "double",
      TpComplex |-> "Complex", TpDComplex |-> "DComplex" ]

table_put_cell_VECTOR_CASE ==
    [ TpArrayBool |-> "Bool", TpArrayChar |-> "Char", TpArrayUChar |-> "uChar",
      TpArrayShort |-> "Short", TpArrayUShort |-> "uShort", TpArrayInt |-> "Int",
      TpArrayUInt |-> "uInt", TpArrayFloat |-> "float", TpArrayDouble |-> "double",
      TpArrayComplex |-> "Complex", TpArrayDComplex |-> "DComplex" ]

\* col.put(row_number, array) on an array column, after the accessor was built
PutArray(t, c, rown, shape, elems, deref) ==
    IF Raises(RowCheck(t, rown))
    THEN [e |-> RowCheck(t, rown), table |-> t, deref |-> deref]
    ELSE IF Raises(ArrayPutCheck(t.cols[c], shape))
    THEN [e |-> ArrayPutCheck(t.cols[c], shape), table |-> t, deref |-> deref]
    ELSE [e |-> NoExc, table |-> WithCell(t, c, rown, Value(shape, elems)),
          deref |-> TRUE]

\* col.put(row_number, datum) on a scalar column, after the datum was read
PutScalar(t, c, rown, datum) ==
    IF Raises(RowCheck(t, rown))
    THEN [e |-> RowCheck(t, rown), table |-> t, deref |-> TRUE]
    ELSE [e |-> NoExc, table |-> WithCell(t, c, rown, Value(<<>>, <<datum>>)),
          deref |-> TRUE]

\* (a switch with no default arm: the call does nothing and returns 0)
table_put_cell_no_default(t) == [e |-> NoExc, table |-> t, deref |-> FALSE]

\* default: throw std::runtime_error("unhandled cell data type")
table_put_cell_default(t) ==
    [e |-> RuntimeError("unhandled cell data type"), table |-> t, deref |-> FALSE]

table_put_cell(t, col_name, rown, data_type, n_dims, dims, data) ==
    LET c == bridge_string(col_name)
        Fail(e) == [e |-> e, table |-> t, deref |-> FALSE]
    IN  IF data_type \in DOMAIN table_put_cell_SCALAR_CASE
        THEN LET cpp == table_put_cell_SCALAR_CASE[data_type]
             IN  IF Raises(ScalarColumn(t, c, cpp)) THEN Fail(ScalarColumn(t, c, cpp))
                 ELSE PutScalar(t, c, rown, ReadAs(cpp, data[1]))
        ELSE IF data_type \in DOMAIN table_put_cell_VECTOR_CASE
        THEN LET cpp == table_put_cell_VECTOR_CASE[data_type]
                 shape == IPositionFrom(n_dims, dims)
             IN  IF Raises(ArrayColumn(t, c, cpp)) THEN Fail(ArrayColumn(t, c, cpp))
                 ELSE PutArray(t, c, rown, shape, ArrayFrom(cpp, shape, data), FALSE)
        ELSE IF data_type = "TpString"
        THEN IF Raises(ScalarColumn(t, c, "String")) THEN Fail(ScalarColumn(t, c, "String"))
             ELSE PutScalar(t, c, rown, bridge_string(data[1]))
        ELSE IF data_type = "TpArrayString"
        THEN LET shape == IPositionFrom(n_dims, dims)
             IN  IF Raises(ArrayColumn(t, c, "String")) THEN Fail(ArrayColumn(t, c, "String"))
                 ELSE PutArray(t, c, rown, shape, bridge_string_array(data, shape), TRUE)
        ELSE table_put_cell_default(t)

(***************************************************************************)
(* table_get_column_info, table_get_cell_info                              *)
(***************************************************************************)
DimTooLargeColumn == "cannot handle columns with data of dimensionality greater than 8"

DimTooLargeCell == "cannot handle cells with data of dimensionality greater than 8"

table_get_column_info(t, col_name) ==
    LET c == bridge_string(col_name)
    IN  IF Raises(TableColumn(t, c)) THEN [e |-> TableColumn(t, c), out |-> NoOut]
        ELSE LET desc == t.cols[c]
                 shape == desc.shape
             IN  IF Len(shape) > MaxDims
                 THEN [e |-> RuntimeError(DimTooLargeColumn), out |-> NoOut]
                 ELSE [e |-> NoExc,
                       out |-> [NoOut EXCEPT
                           !.wrote = {"n_rows", "data_type", "is_scalar",
                                      "is_fixed_shape", "n_dim"}
                                     \cup (IF desc.ndim > 0 THEN {"dims"} ELSE {}),
                           !.n_rows = t.nrow,
                           !.data_type = desc.elem,
                           !.is_scalar = IF desc.array THEN 0 ELSE 1,
                           !.is_fixed_shape = IF desc.fixed THEN 1 ELSE 0,
                           !.n_dim = desc.ndim,
                           !.dims = DimsFrom(desc.ndim, shape)]]

table_get_cell_info(t, col_name, rown) ==
    LET c == bridge_string(col_name)
    IN  IF Raises(TableColumn(t, c)) THEN [e |-> TableColumn(t, c), out |-> NoOut]
        ELSE LET desc == t.cols[c]
                 o1 == [NoOut EXCEPT !.wrote = {"data_type"}, !.data_type = desc.elem]
             IN  IF ~desc.array
                 THEN [e |-> NoExc,
                       out |-> [o1 EXCEPT !.wrote = @ \cup {"n_dim"}, !.n_dim = 0]]
                 ELSE IF Raises(RowCheck(t, rown))
                 THEN [e |-> RowCheck(t, rown), out |-> o1]
                 ELSE LET shape == t.cells[c][rown].shape
                          n_dim == Len(shape)
                          o2 == [o1 EXCEPT !.wrote = @ \cup {"n_dim"}, !.n_dim = n_dim]
                      IN  IF n_dim > MaxDims
                          THEN [e |-> RuntimeError(DimTooLargeCell), out |-> o2]
                          ELSE [e |-> NoExc,
                                out |-> [o2 EXCEPT
                                    !.wrote = @ \cup (IF n_dim > 0 THEN {"dims"} ELSE {}),
                                    !.dims = DimsFrom(n_dim, shape)]]

(***************************************************************************)
(* table_get_cell, table_get_scalar_column_data                            *)
(***************************************************************************)
table_get_cell_SCALAR_CASE ==
    [ TpBool |-> "Bool", TpChar |-> "Char", TpUChar |-> "uChar",
      TpShort |-> "Short", TpUShort |-> "uShort", TpInt |-> "Int",
      TpUInt |-> "uInt", TpFloat |-> "float", TpDouble |-> "double",
      TpComplex |-> "Complex", TpDComplex |-> "DComplex" ]

table_get_cell_VECTOR_CASE ==
    [ TpArrayBool |-> "Bool", TpArrayChar |-> "Char", TpArrayUChar |-> "uChar",
      TpArrayShort |-> "Short", TpArrayUShort |-> "uShort", TpArrayInt |-> "Int",
      TpArrayUInt |-> "uInt", TpArrayFloat |-> "float", TpArrayDouble |-> "double",
      TpArrayComplex |-> "Complex", TpArrayDComplex |-> "DComplex" ]

UseCellString == "you must use table_get_cell_string() for string cells"

UseCellStringArray == "you must use table_get_cell_string_array() for string-array cells"

\* the stores of a successful generic get into the caller's data buffer
Filled(elems) == [NoOut EXCEPT !.wrote = {"data"}, !.data = elems]

table_get_cell(t, col_name, rown) ==
    LET c == bridge_string(col_name)
        Fail(e) == [e |-> e, out |-> NoOut, tag |-> ""]
    IN  IF Raises(TableColumn(t, c)) THEN Fail(TableColumn(t, c))
        ELSE IF t.cols[c].array /\ Raises(RowCheck(t, rown)) THEN Fail(RowCheck(t, rown))
        ELSE
        LET desc == t.cols[c]
            tag == trueDataType(desc)
            FailT(e) == [e |-> e, out |-> NoOut, tag |-> tag]
        IN  IF tag \in DOMAIN table_get_cell_SCALAR_CASE
            THEN LET cpp == table_get_cell_SCALAR_CASE[tag]
                 IN  IF Raises(ScalarColumn(t, c, cpp)) THEN FailT(ScalarColumn(t, c, cpp))
                     ELSE IF Raises(RowCheck(t, rown)) THEN FailT(RowCheck(t, rown))
                     ELSE [e |-> NoExc, tag |-> tag,
                           out |-> Filled(<<ReadAs(cpp, t.cells[c][rown].data[1])>>)]
            ELSE IF tag \in DOMAIN table_get_cell_VECTOR_CASE
            THEN LET cpp == table_get_cell_VECTOR_CASE[tag]
                 IN  IF Raises(ArrayColumn(t, c, cpp)) THEN FailT(ArrayColumn(t, c, cpp))
                     ELSE IF ~t.cells[c][rown].def
                     THEN FailT(Native("no array in the cell"))
                     ELSE [e |-> NoExc, tag |-> tag,
                           out |-> Filled(t.cells[c][rown].data)]
            ELSE IF tag = "TpString" THEN FailT(RuntimeError(UseCellString))
            ELSE IF tag = "TpArrayString" THEN FailT(RuntimeError(UseCellStringArray))
            ELSE FailT(RuntimeError("unhandled cell data type"))

table_get_scalar_column_data_CASE ==
    [ TpBool |-> "Bool", TpChar |-> "Char", TpUChar |-> "uChar",
      TpShort |-> "Short", TpUShort |-> "uShort", TpInt |-> "Int",
      TpUInt |-> "uInt", TpFloat |-> "float", TpDouble |-> "double",
      TpComplex |-> "Complex", TpDComplex |-> "DComplex" ]

UseColumnDataString == "use table_get_scalar_column_data_string for TpString columns"

table_get_scalar_column_data(t, col_name) ==
    LET c == bridge_string(col_name)
    IN  IF Raises(TableColumn(t, c))
        THEN [e |-> TableColumn(t, c), out |-> NoOut, tag |-> ""]
        ELSE
        LET tag == t.cols[c].elem
            FailT(e) == [e |-> e, out |-> NoOut, tag |-> tag]
        IN  IF tag \in DOMAIN table_get_scalar_column_data_CASE
            THEN LET cpp == table_get_scalar_column_data_CASE[tag]
                 IN  IF Raises(ScalarColumn(t, c, cpp)) THEN FailT(ScalarColumn(t, c, cpp))
                     ELSE [e |-> NoExc, tag |-> tag,
                           out |-> Filled([r \in 1..t.nrow |->
                                      ReadAs(cpp, t.cells[c][r - 1].data[1])])]
            ELSE IF tag = "TpString" THEN FailT(RuntimeError(UseColumnDataString))
            ELSE FailT(RuntimeError("unhandled scalar column data type"))

(***************************************************************************)
(* The calls that hand strings to the host through the callback:           *)
(* table_get_cell_string, table_get_cell_string_array, table_get_file_name *)
(***************************************************************************)
\* (unbridge_string with n_bytes counting the terminating NUL as well)
unbridge_string_with_nul(input) ==
    <<[data |-> input \o NUL, n_bytes |-> Len(input) + 1]>>

\* unbridge_string: one callback with the bytes and the length of input
unbridge_string(input) == <<SB(input)>>

\* (unbridge_string_array visiting the elements from the last to the first)
unbridge_string_array_backwards(input) ==
    [i \in 1..Len(input) |-> SB(input[Len(input) + 1 - i])]

\* unbridge_string_array: one callback per element, in iteration order
unbridge_string_array(input) == [i \in 1..Len(input) |-> SB(input[i])]

Called(cb) == [NoOut EXCEPT !.cb = cb]

\* the path the table was opened under
TablePath == "scratch.tab"

\* table.tableName()
tableName(t) == TablePath

table_get_file_name(t) ==
    [e |-> NoExc, out |-> Called(unbridge_string(tableName(t)))]

table_get_cell_string(t, col_name, rown) ==
    LET c == bridge_string(col_name)
    IN  IF Raises(ScalarColumn(t, c, "String"))
        THEN [e |-> ScalarColumn(t, c, "String"), out |-> NoOut]
        ELSE IF Raises(RowCheck(t, rown))
        THEN [e |-> RowCheck(t, rown), out |-> NoOut]
        ELSE [e |-> NoExc,
              out |-> Called(unbridge_string(t.cells[c][rown].data[1]))]

table_get_cell_string_array(t, col_name, rown) ==
    LET c == bridge_string(col_name)
    IN  IF Raises(ArrayColumn(t, c, "String"))
        THEN [e |-> ArrayColumn(t, c, "String"), out |-> NoOut]
        ELSE IF Raises(RowCheck(t, rown))
        THEN [e |-> RowCheck(t, rown), out |-> NoOut]
        ELSE IF ~t.cells[c][rown].def
        THEN [e |-> Native("no array in the cell"), out |-> NoOut]
        ELSE [e |-> NoExc,
              out |-> Called(unbridge_string_array(t.cells[c][rown].data))]

(***************************************************************************)
(* TableRecord, as far as the glue code relies on it: fields by name, each *)
(* with its tag (rec.type()) and its value.                                *)
(***************************************************************************)
Field(type, v) == [type |-> type, v |-> v]

\* rec.fieldNumber(name) >= 0
HasField(r, name) == name \in DOMAIN r.fields

\* RecordDesc::isScalar(): neither an array nor a sub-record nor a table
IsScalarField(type) == type \in ScalarTags \ {"TpRecord", "TpTable"}

\* rec.define(name, value): a field that exists keeps its type
define(r, name, type, v) ==
    IF HasField(r, name) /\ r.fields[name].type # type
    THEN [e |-> Native("field " \o name \o " has another data type"), rec |-> r]
    ELSE [e |-> NoExc,
          rec |-> [r EXCEPT !.fields =
                      [n \in DOMAIN r.fields \cup {name} |->
                          IF n = name THEN Field(type, v) ELSE r.fields[n]]]]

(***************************************************************************)
(* tablerec_put_field                                                      *)
(***************************************************************************)
tablerec_put_field_SCALAR_CASE ==
    [ TpBool |-> "Bool", TpUChar |-> "uChar", TpShort |-> "Short",
      TpInt |-> "Int", TpUInt |-> "uInt", TpFloat |-> "float",
      TpDouble |-> "double", TpComplex |-> "Complex", TpDComplex |-> "DComplex" ]

tablerec_put_field_VECTOR_CASE ==
    [ TpArrayBool |-> "Bool", TpArrayUChar |-> "uChar", TpArrayShort |-> "Short",
      TpArrayInt |-> "Int", TpArrayUInt |-> "uInt", TpArrayFloat |-> "float",
      TpArrayDouble |-> "double", TpArrayComplex |-> "Complex",
      TpArrayDComplex |-> "DComplex" ]

tablerec_put_field(r, field_name, data_type, n_dims, dims, data) ==
    LET name == bridge_string(field_name)
        Defined(v) == [e |-> define(r, name, data_type, v).e,
                       rec |-> define(r, name, data_type, v).rec,
                       deref |-> TRUE]
    IN  IF data_type \in DOMAIN tablerec_put_field_SCALAR_CASE
        THEN Defined(Value(<<>>,
                 <<ReadAs(tablerec_put_field_SCALAR_CASE[data_type], data[1])>>))
        ELSE IF data_type \in DOMAIN tablerec_put_field_VECTOR_CASE
        THEN LET shape == IPositionFrom(n_dims, dims)
             IN  Defined(Value(shape,
                     ArrayFrom(tablerec_put_field_VECTOR_CASE[data_type], shape, data)))
        ELSE IF data_type = "TpString"
        THEN Defined(Value(<<>>, <<bridge_string(data[1])>>))
        ELSE IF data_type = "TpArrayString"
        THEN LET shape == IPositionFrom(n_dims, dims)
             IN  Defined(Value(shape, bridge_string_array(data, shape)))
        ELSE IF data_type = "TpTable" THEN Defined(Value(<<1>>, <<data[1]>>))
        ELSE IF data_type = "TpRecord" THEN Defined(Value(<<1>>, <<data[1]>>))
        ELSE [e |-> RuntimeError("unhandled cell data type"), rec |-> r,
              deref |-> FALSE]

(***************************************************************************)
(* tablerec_get_field_info, tablerec_get_field                             *)
(***************************************************************************)
\* (the message without s.append(bridge_string(col_name)))
UnrecognizedUnnamed(name) == "unrecognized column name: "

UnrecognizedColumn(name) == "unrecognized column name: " \o name

UnrecognizedKeyword(name) == "unrecognized keyword name: " \o name

tablerec_get_field_info(r, col_name) ==
    LET name == bridge_string(col_name)
    IN  IF ~HasField(r, name)
        THEN [e |-> RuntimeError(UnrecognizedColumn(name)), out |-> NoOut]
        ELSE LET f == r.fields[name]
                 o1 == [NoOut EXCEPT !.wrote = {"data_type"}, !.data_type = f.type]
             IN  IF IsScalarField(f.type)
                 THEN [e |-> NoExc,
                       out |-> [o1 EXCEPT !.wrote = @ \cup {"n_dim"}, !.n_dim = 0]]
                 ELSE LET shape == f.v.shape
                          n_dim == Len(shape)
                      IN  [e |-> NoExc,
                           out |-> [o1 EXCEPT
                               !.wrote = @ \cup {"n_dim"}
                                           \cup (IF n_dim > 0 THEN {"dims"} ELSE {}),
                               !.n_dim = n_dim,
                               !.dims = DimsFrom(n_dim, shape)]]

tablerec_get_field_SCALAR_CASE ==
    [ TpBool |-> "Bool", TpUChar |-> "uChar", TpShort |-> "Short",
      TpInt |-> "Int", TpUInt |-> "uInt", TpFloat |-> "float",
      TpDouble |-> "double", TpComplex |-> "Complex", TpDComplex |-> "DComplex" ]

tablerec_get_field_VECTOR_CASE ==
    [ TpArrayBool |-> "Bool", TpArrayUChar |-> "uChar", TpArrayShort |-> "Short",
      TpArrayInt |-> "Int", TpArrayUInt |-> "uInt", TpArrayFloat |-> "float",
      TpArrayDouble |-> "double", TpArrayComplex |-> "Complex",
      TpArrayDComplex |-> "DComplex" ]

UseFieldSubrecord == "you must use tablerec_get_field_subrecord() for record fields"

UseFieldString == "you must use tablerec_get_field_string() for string fields"

\* (what a switch without the TpArrayString arm reports: its default arm)
UseFieldStringArray_no_arm == "unhandled field data type"

UseFieldStringArray == "you must use tablerec_get_field_string_array() for string-array fields"

tablerec_get_field(r, field_name) ==
    LET name == bridge_string(field_name)
    IN  IF ~HasField(r, name)
        THEN [e |-> RuntimeError(UnrecognizedKeyword(name)), out |-> NoOut, tag |-> ""]
        ELSE
        LET f == r.fields[name]
            tag == f.type
            FailT(e) == [e |-> e, out |-> NoOut, tag |-> tag]
        IN  IF tag \in DOMAIN tablerec_get_field_SCALAR_CASE
            THEN [e |-> NoExc, tag |-> tag,
                  out |-> Filled(<<ReadAs(tablerec_get_field_SCALAR_CASE[tag],
                                          f.v.data[1])>>)]
            ELSE IF tag \in DOMAIN tablerec_get_field_VECTOR_CASE
            THEN [e |-> NoExc, tag |-> tag, out |-> Filled(f.v.data)]
            ELSE IF tag = "TpRecord" THEN FailT(RuntimeError(UseFieldSubrecord))
            ELSE IF tag = "TpString" THEN FailT(RuntimeError(UseFieldString))
            ELSE IF tag = "TpArrayString" THEN FailT(RuntimeError(UseFieldStringArray))
            ELSE FailT(RuntimeError("unhandled field data type"))

(***************************************************************************)
(* tablerec_get_field_string, _string_array, _subrecord                    *)
(***************************************************************************)
tablerec_get_field_string(r, col_name) ==
    LET name == bridge_string(col_name)
    IN  IF ~HasField(r, name)
        THEN [e |-> RuntimeError(UnrecognizedKeyword(name)), out |-> NoOut]
        ELSE IF r.fields[name].type # "TpString"
        THEN [e |-> RuntimeError("tablerec cell must be of TpString type"),
              out |-> NoOut]
        ELSE [e |-> NoExc, out |-> Called(unbridge_string(r.fields[name].v.data[1]))]

tablerec_get_field_string_array(r, col_name) ==
    LET name == bridge_string(col_name)
    IN  IF ~HasField(r, name)
        THEN [e |-> RuntimeError(UnrecognizedColumn(name)), out |-> NoOut]
        ELSE IF r.fields[name].type # "TpArrayString"
        THEN [e |-> RuntimeError("row cell must be of TpStringArray type"),
              out |-> NoOut]
        ELSE [e |-> NoExc, out |-> Called(unbridge_string_array(r.fields[name].v.data))]

tablerec_get_field_subrecord(r, col_name) ==
    LET name == bridge_string(col_name)
    IN  IF ~HasField(r, name)
        THEN [e |-> RuntimeError(UnrecognizedColumn(name)), out |-> NoOut]
        ELSE IF r.fields[name].type # "TpRecord"
        THEN [e |-> RuntimeError("row cell must be of TpRecord type"), out |-> NoOut]
        ELSE [e |-> NoExc,
              out |-> [NoOut EXCEPT !.wrote = {"sub_rec"}, !.data = r.fields[name].v.data]]

(***************************************************************************)
(* The row cursor (ROTableRow / TableRow): a record with one field per     *)
(* column, filled from a row of the table by table_row_read.               *)
(***************************************************************************)
DefaultElem(tag) ==
    IF tag \in NumericTags THEN ZeroOf(CppOf(tag))
    ELSE IF tag = "TpString" THEN ""
    ELSE <<>>

\* the value of a cell nothing was put into
DefaultCell(d) ==
    IF ~d.array THEN Value(<<>>, <<DefaultElem(d.elem)>>)
    ELSE IF d.fixed
    THEN Value(d.shape, [j \in 1..Product(d.shape) |-> DefaultElem(d.elem)])
    ELSE Undefined

\* new casacore::ROTableRow(table) / new casacore::TableRow(table);
\* writable tells the cursor is a TableRow
table_row_alloc(t, is_read_only) ==
    [live |-> TRUE,
     writable |-> (is_read_only = 0),
     fields |-> [c \in DOMAIN t.cols |->
                    Field(trueDataType(t.cols[c]), DefaultCell(t.cols[c]))]]

\* (a row.get(row_number) that leaves in the record what an earlier row
\* put there, where the cell of this row holds no value)
table_row_read_defined(w, t, rown) ==
    IF Raises(RowCheck(t, rown)) THEN [e |-> RowCheck(t, rown), row |-> w]
    ELSE [e |-> NoExc,
          row |-> [w EXCEPT !.fields =
                     [c \in DOMAIN t.cols |->
                         IF t.cells[c][rown].def
                         THEN Field(trueDataType(t.cols[c]), t.cells[c][rown])
                         ELSE w.fields[c]]]]

\* row.get(row_number)
table_row_read(w, t, rown) ==
    IF Raises(RowCheck(t, rown)) THEN [e |-> RowCheck(t, rown), row |-> w]
    ELSE [e |-> NoExc,
          row |-> [w EXCEPT !.fields =
                     [c \in DOMAIN t.cols |->
                         Field(trueDataType(t.cols[c]), t.cells[c][rown])]]]

\* row.record()
record(w) == [live |-> TRUE, fields |-> w.fields]

table_row_get_cell_info(w, col_name) == tablerec_get_field_info(record(w), col_name)

table_row_get_cell(w, col_name) == tablerec_get_field(record(w), col_name)

table_row_get_cell_string(w, col_name) ==
    tablerec_get_field_string(record(w), col_name)

table_row_get_cell_string_array(w, col_name) ==
    tablerec_get_field_string_array(record(w), col_name)

\* row.getDefined(): for each field, whether the cell it was read from
\* held a value
getDefined(w) == [c \in DOMAIN w.fields |-> w.fields[c].v.def]

\* TableRow::put(rownr, record, valuesDefined): the defined fields of the
\* record go to the cells of the row
TableRow_put(t, rown, r, valuesDefined) ==
    IF Raises(RowCheck(t, rown)) THEN [e |-> RowCheck(t, rown), table |-> t]
    ELSE IF \E c \in DOMAIN t.cols :
               ~HasField(r, c) \/ r.fields[c].type # trueDataType(t.cols[c])
    THEN [e |-> Native("record does not conform to the row"), table |-> t]
    ELSE [e |-> NoExc,
          table |-> [t EXCEPT !.cells =
                       [c \in DOMAIN t.cols |->
                           [n \in DOMAIN t.cells[c] |->
                               IF n = rown /\ valuesDefined[c]
                               THEN r.fields[c].v ELSE t.cells[c][n]]]]]

\* (casacore::TableRow &) wrap_row: a cast the compiler does not check.
\* On a cursor that is a TableRow the members of TableRow run; on one that
\* is a ROTableRow the behaviour is undefined: the members of TableRow run
\* on it all the same, or the engine raises.
Downcast(w) == IF w.writable THEN {"TableRow"} ELSE {"TableRow", "raises"}


NotATableRow == Native("the row object is not writable")

\* (a table_row_copy_and_put that puts to the first row whatever row it is
\* given)
table_row_copy_and_put_first(src_row, dest_row_number, dest_row, t) ==
    IF dest_row = "raises" THEN [e |-> NotATableRow, table |-> t]
    ELSE TableRow_put(t, 0, record(src_row), getDefined(src_row))

\* table_row_copy_and_put, with dest_row one outcome of the cast and t the
\* table the destination cursor is bound to
table_row_copy_and_put(src_row, dest_row_number, dest_row, t) ==
    IF dest_row = "raises" THEN [e |-> NotATableRow, table |-> t]
    ELSE TableRow_put(t, dest_row_number, record(src_row), getDefined(src_row))

\* table_row_put_cell, with as_row one outcome of the cast
table_row_put_cell(w, as_row, col_name, data_type, n_dims, dims, data) ==
    IF as_row = "raises" THEN [e |-> NotATableRow, row |-> w, deref |-> FALSE]
    ELSE LET r == tablerec_put_field(record(w), col_name, data_type, n_dims,
                                     dims, data)
         IN  [e |-> r.e, row |-> [w EXCEPT !.fields = r.rec.fields],
              deref |-> r.deref]

\* table_row_write, with as_row one outcome of the cast: row.put(n) puts every
\* field of the cursor's own record
table_row_write(w, as_row, dest_row_number, t) ==
    IF as_row = "raises" THEN [e |-> NotATableRow, table |-> t]
    ELSE TableRow_put(t, dest_row_number, record(w),
                      [c \in DOMAIN w.fields |-> TRUE])

(***************************************************************************)
(* The exported entry points (extern "C", glue.cc) and the shape of each   *)
(* body as far as exceptions go:                                           *)
(*   ret      what the function returns: "ptr" (a handle), "int" (a        *)
(*            status), "void", "ulong" (a count) or "bool";                *)
(*   exc      it takes an ExcInfo out-parameter;                           *)
(*   outside  it runs native code (a casacore call or an allocation)       *)
(*            outside every try block;                                     *)
(*   inside   it runs native code inside its try block.                    *)
(***************************************************************************)
EP(r, x, o, i) == [ret |-> r, exc |-> x, outside |-> o, inside |-> i]

EntryPoints ==
    [ data_type_get_element_size          |-> EP("int",   FALSE, FALSE, FALSE),
      tablerec_create                     |-> EP("ptr",   TRUE,  FALSE, TRUE),
      tablerec_copy                       |-> EP("ptr",   TRUE,  FALSE, TRUE),
      tablerec_eq                         |-> EP("bool",  FALSE, TRUE,  FALSE),
      tablerec_get_keyword_info           |-> EP("int",   TRUE,  FALSE, TRUE),
      tablerec_get_keyword_repr           |-> EP("int",   TRUE,  FALSE, TRUE),
      tablerec_get_field_info             |-> EP("int",   TRUE,  FALSE, TRUE),
      tablerec_get_field                  |-> EP("int",   TRUE,  FALSE, TRUE),
      tablerec_get_field_string           |-> EP("int",   TRUE,  FALSE, TRUE),
      tablerec_get_field_string_array     |-> EP("int",   TRUE,  FALSE, TRUE),
      tablerec_get_field_subrecord        |-> EP("int",   TRUE,  FALSE, TRUE),
      tablerec_put_field                  |-> EP("int",   TRUE,  FALSE, TRUE),
      tablerec_free                       |-> EP("int",   TRUE,  FALSE, TRUE),
      tabledesc_create                    |-> EP("ptr",   TRUE,  FALSE, TRUE),
      tabledesc_add_scalar_column         |-> EP("int",   TRUE,  FALSE, TRUE),
      tabledesc_add_array_column          |-> EP("int",   TRUE,  FALSE, TRUE),
      tabledesc_add_fixed_array_column    |-> EP("int",   TRUE,  TRUE,  TRUE),
      tabledesc_set_ndims                 |-> EP("int",   TRUE,  FALSE, TRUE),
      tabledesc_put_keyword               |-> EP("int",   TRUE,  FALSE, TRUE),
      tabledesc_put_column_keyword        |-> EP("int",   TRUE,  FALSE, TRUE),
      tabledesc_get_keywords              |-> EP("ptr",   TRUE,  FALSE, TRUE),
      tabledesc_get_column_keywords       |-> EP("ptr",   TRUE,  FALSE, TRUE),
      table_create                        |-> EP("ptr",   TRUE,  FALSE, TRUE),
      table_alloc_and_open                |-> EP("ptr",   TRUE,  FALSE, TRUE),
      table_close_and_free                |-> EP("void",  TRUE,  FALSE, TRUE),
      table_n_rows                        |-> EP("ulong", FALSE, TRUE,  FALSE),
      table_n_columns                     |-> EP("ulong", FALSE, TRUE,  FALSE),
      table_get_file_name                 |-> EP("int",   TRUE,  FALSE, TRUE),
      table_get_column_names              |-> EP("int",   TRUE,  FALSE, TRUE),
      table_remove_column                 |-> EP("int",   TRUE,  FALSE, TRUE),
      table_add_scalar_column             |-> EP("int",   TRUE,  FALSE, TRUE),
      table_add_array_column              |-> EP("int",   TRUE,  FALSE, TRUE),
      table_add_fixed_array_column        |-> EP("int",   TRUE,  TRUE,  TRUE),
      table_n_keywords                    |-> EP("ulong", FALSE, TRUE,  FALSE),
      table_get_keyword_info              |-> EP("int",   TRUE,  FALSE, TRUE),
      table_get_column_keyword_info       |-> EP("int",   TRUE,  FALSE, TRUE),
      table_get_keywords                  |-> EP("ptr",   TRUE,  FALSE, TRUE),
      table_get_column_keywords           |-> EP("ptr",   TRUE,  FALSE, TRUE),
      table_put_keyword                   |-> EP("int",   TRUE,  FALSE, TRUE),
      table_put_column_keyword            |-> EP("int",   TRUE,  FALSE, TRUE),
      table_copy_rows                     |-> EP("int",   TRUE,  FALSE, TRUE),
      table_deep_copy_no_rows             |-> EP("int",   TRUE,  FALSE, TRUE),
      table_get_column_info               |-> EP("int",   TRUE,  FALSE, TRUE),
      table_get_scalar_column_data        |-> EP("int",   TRUE,  FALSE, TRUE),
      table_get_scalar_column_data_string |-> EP("int",   TRUE,  FALSE, TRUE),
      table_get_cell_info                 |-> EP("int",   TRUE,  FALSE, TRUE),
      table_get_cell                      |-> EP("int",   TRUE,  FALSE, TRUE),
      table_get_cell_string               |-> EP("int",   TRUE,  FALSE, TRUE),
      table_get_cell_string_array         |-> EP("int",   TRUE,  FALSE, TRUE),
      table_put_cell                      |-> EP("int",   TRUE,  FALSE, TRUE),
      table_add_rows                      |-> EP("int",   TRUE,  FALSE, TRUE),
      table_row_alloc                     |-> EP("ptr",   TRUE,  FALSE, TRUE),
      table_row_free                      |-> EP("int",   TRUE,  FALSE, TRUE),
      table_row_read                      |-> EP("int",   TRUE,  FALSE, TRUE),
      table_row_copy_and_put              |-> EP("int",   TRUE,  FALSE, TRUE),
      table_row_get_cell_info             |-> EP("int",   TRUE,  FALSE, TRUE),
      table_row_get_cell                  |-> EP("int",   TRUE,  FALSE, TRUE),
      table_row_get_cell_string           |-> EP("int",   TRUE,  FALSE, TRUE),
      table_row_get_cell_string_array     |-> EP("int",   TRUE,  FALSE, TRUE),
      table_row_put_cell                  |-> EP("int",   TRUE,  FALSE, TRUE),
      table_row_write                     |-> EP("int",   TRUE,  FALSE, TRUE) ]

FnNames == DOMAIN EntryPoints

\* the places of a body where native code can raise
FaultSites(fn) ==
    (IF EntryPoints[fn].outside THEN {"outside"} ELSE {})
        \cup (IF EntryPoints[fn].inside THEN {"inside"} ELSE {})

\* A handle is an address; NULL is the null pointer.
NULL == 0

\* what the catch block of an entry point returns: `return NULL` in the
\* pointer-returning functions, `return 1` in the int-returning ones, and
\* nothing in table_close_and_free, whose return type is void
CatchReturn(fn) ==
    CASE EntryPoints[fn].ret = "ptr" -> [returns |-> "value", ret |-> NULL]
      [] EntryPoints[fn].ret = "int" -> [returns |-> "value", ret |-> 1]
      [] OTHER                       -> [returns |-> "void",  ret |-> 0]

\* what the entry point returns when nothing is raised
NormalReturn(fn) ==
    CASE EntryPoints[fn].ret = "ptr"   -> [returns |-> "value", ret |-> 1]
      [] EntryPoints[fn].ret = "int"   -> [returns |-> "value", ret |-> 0]
      [] EntryPoints[fn].ret = "void"  -> [returns |-> "void",  ret |-> 0]
      [] EntryPoints[fn].ret = "ulong" -> [returns |-> "value", ret |-> 2]
      [] OTHER                         -> [returns |-> "value", ret |-> 1]

(***************************************************************************)
(* SpecExc: one call of an entry point, during which native code raises    *)
(* at one of its fault sites or not at all.                                *)
(***************************************************************************)
WhatLens == {0, 12, BufSize - 2, BufSize - 1, BufSize, BufSize + 88}

Raised == {StdExc(Repeat("e", n)) : n \in WhatLens} \cup {OtherExc}

\* the call runs to its end
Returns(fn) ==
    /\ last' = [fn |-> fn, site |-> "none", e |-> NoExc, escaped |-> FALSE,
                returns |-> NormalReturn(fn).returns, ret |-> NormalReturn(fn).ret]
    /\ io' = NoIO
    /\ UNCHANGED <<table, rec, row, host, exc, heap>>

\* native code raises inside the try block: catch (...) runs
Catches(fn, e) ==
    /\ "inside" \in FaultSites(fn)
    /\ exc' = [message |-> handle_exception(e, exc.message)]
    /\ last' = [fn |-> fn, site |-> "inside", e |-> e, escaped |-> FALSE,
                returns |-> CatchReturn(fn).returns, ret |-> CatchReturn(fn).ret]
    /\ io' = NoIO
    /\ UNCHANGED <<table, rec, row, host, heap>>

\* native code raises outside every try block: the exception leaves the
\* extern "C" function and nothing is returned
Escapes(fn, e) ==
    /\ "outside" \in FaultSites(fn)
    /\ last' = [fn |-> fn, site |-> "outside", e |-> e, escaped |-> TRUE,
                returns |-> "none", ret |-> 0]
    /\ io' = NoIO
    /\ UNCHANGED <<table, rec, row, host, exc, heap>>

\* the entry points whose try block is `return tablerec_...(..., exc)`,
\* and the entry point each of them hands its work to
Delegate ==
    [ tabledesc_put_keyword           |-> "tablerec_put_field",
      tabledesc_put_column_keyword    |-> "tablerec_put_field",
      table_get_keyword_info          |-> "tablerec_get_keyword_info",
      table_get_column_keyword_info   |-> "tablerec_get_keyword_info",
      table_put_keyword               |-> "tablerec_put_field",
      table_put_column_keyword        |-> "tablerec_put_field",
      table_row_get_cell_info         |-> "tablerec_get_field_info",
      table_row_get_cell              |-> "tablerec_get_field",
      table_row_get_cell_string       |-> "tablerec_get_field_string",
      table_row_get_cell_string_array |-> "tablerec_get_field_string_array",
      table_row_put_cell              |-> "tablerec_put_field" ]

\* (a wrapper that calls the other entry point and returns 0)
Delegated_status_dropped(status) == 0

\* return tablerec_...(..., exc): the status of the other entry point
Delegated_status(status) == status

\* the entry point reaches the call of the other one, which runs to its
\* end, or has native code raise in its try block and catches it: it
\* writes the ExcInfo it was handed, the caller's, and returns 1
Delegates(fn) ==
    /\ fn \in DOMAIN Delegate
    /\ \/ /\ last' = [fn |-> fn, site |-> "none", e |-> NoExc,
                       escaped |-> FALSE, returns |-> "value",
                       ret |-> Delegated_status(NormalReturn(Delegate[fn]).ret)]
          /\ io' = [NoIO EXCEPT !.inner =
                       [fn |-> Delegate[fn], ret |-> NormalReturn(Delegate[fn]).ret]]
          /\ exc' = exc
       \/ \E e \in Raised :
            /\ last' = [fn |-> fn, site |-> "delegate", e |-> e,
                        escaped |-> FALSE, returns |-> "value",
                        ret |-> Delegated_status(CatchReturn(Delegate[fn]).ret)]
            /\ io' = [NoIO EXCEPT !.inner =
                        [fn |-> Delegate[fn], ret |-> CatchReturn(Delegate[fn]).ret]]
            /\ exc' = [message |-> handle_exception(e, exc.message)]
    /\ UNCHANGED <<table, rec, row, host, heap>>

\* an entry point that hands its work on returns through that call alone
Invoke(fn) ==
    \/ fn \notin DOMAIN Delegate /\ Returns(fn)
    \/ Delegates(fn)
    \/ \E e \in Raised : Catches(fn, e)
    \/ \E e \in Raised : Escapes(fn, e)

InitExc ==
    /\ table = NoTable
    /\ rec = NoRecord
    /\ row = NoRow
    /\ host = NoPut
    /\ heap = NoHeap
    /\ exc \in {[message |-> Garbage], [message |-> Zeroed]}
    /\ last = [fn |-> "none", site |-> "none", e |-> NoExc, escaped |-> FALSE,
               returns |-> "none", ret |-> 0]
    /\ io = NoIO

\* the values a host can pass for a GlueDataType: the tags, the enum's
\* last member and integers that are no member of it
TagInputs == AllTags \cup {"TpNumberOfTypes", "(GlueDataType) 32", "(GlueDataType) -1"}

Call_data_type_get_element_size ==
    /\ \E ty \in TagInputs :
         /\ last' = [fn |-> "data_type_get_element_size", site |-> "none",
                     e |-> NoExc, escaped |-> FALSE, returns |-> "value",
                     ret |-> data_type_get_element_size(ty)]
         /\ io' = [NoIO EXCEPT !.data_type = ty]
    /\ UNCHANGED <<table, rec, row, host, exc, heap>>

\* data_type_get_element_size calls no native code; the other entry points
\* return, catch or let escape
NextExc ==
    \/ Call_data_type_get_element_size
    \/ \E fn \in FnNames \ {"data_type_get_element_size"} : Invoke(fn)

SpecExc == InitExc /\ [][NextExc]_vars

(***************************************************************************)
(* Properties of the exception boundary (SpecExc).                         *)
(***************************************************************************)

\* the last call had native code raise in it
(***************************************************************************)
(* Spec: a host working on one handle, a table of one column or a record,  *)
(* through the put, get and describe entry points.                         *)
(***************************************************************************)
\* the rows of the table
NRows == 1

\* the ranks of the fixed-shape columns
FixedRanks == {2, MaxRank}

\* the element tags of the scalar columns and of the array columns
ElemTags == NumericTags \cup {"TpString", "TpRecord", "TpOther"}

ArrayElemTags == {"TpBool", "TpInt", "TpDComplex", "TpInt64", "TpString"}

ColumnDescs ==
    {ColumnDesc(t, FALSE, FALSE, <<>>, 0) : t \in ElemTags}
        \cup {ColumnDesc(t, TRUE, FALSE, <<>>, -1) : t \in ArrayElemTags}
        \cup {ColumnDesc(t, TRUE, TRUE, Reverse(HostShape(n)), n) :
                 t \in ArrayElemTags, n \in FixedRanks}

\* a table of the one column COL and NRows rows, as table_alloc_and_open
\* hands it out (or table_create, for the columns the glue code can declare)
table_alloc_and_open(d) ==
    [live |-> TRUE,
     cols |-> [c \in {"COL"} |-> d],
     nrow |-> NRows,
     cells |-> [c \in {"COL"} |-> [r \in 0..(NRows - 1) |-> DefaultCell(d)]]]

\* tablerec_create: an empty record
tablerec_create == [live |-> TRUE, fields |-> <<>>]

\* the names a host looks up: the one that exists, one that does not, and
\* one that does not and is longer than the message buffer can repeat
LongLen == 500

LongName == Repeat("n", LongLen)

ColNames == {"COL", "NOPE"}

\* the cells a host puts to: the one that exists, a row past the end and a
\* column that does not exist
PutTargets == {<<"COL", 0>>, <<"COL", NRows>>, <<"NOPE", 0>>}

LookupNames(present) == {present, "missing", LongName}

RowNumbers == 0..NRows

\* What a host passes to a put.  The tag the target holds comes with every
\* value and every rank, the other tags with one value and the highest rank.
Arg(data_type, dims, data) ==
    [data_type |-> data_type, n_dims |-> Len(dims), dims |-> dims, data |-> data]

ScalarInputs(held) ==
    UNION {{Arg(CppTypes[c].tag, <<>>, <<v>>) :
                v \in IF CppTypes[c].tag = held THEN ScalarValues(c) ELSE {ZeroOf(c)}} :
           c \in DOMAIN CppTypes \ {"String"}}

\* a StringBridge of n_bytes = 0 whose pointer has bytes behind it
EmptyBridge == [data |-> "abc", n_bytes |-> 0]

StringInputs(held) ==
    {Arg("TpString", <<>>, <<b>>) :
        b \in IF held = "TpString" THEN {SB(""), SB("abc"), EmptyBridge}
              ELSE {SB("abc")}}

ShapesFor(tag, held) ==
    IF tag = held THEN HostShapes ELSE {HostShape(MaxRank)}

ArrayInputs(held) ==
    UNION {{Arg(AsArray(CppTypes[c].tag), d, HostElems(c, Product(d))) :
                d \in ShapesFor(AsArray(CppTypes[c].tag), held)} :
           c \in DOMAIN CppTypes \ {"String"}}

StringArrayInputs(held) ==
    {Arg("TpArrayString", d,
         [j \in 1..Product(d) |-> SB(HostStrings(Product(d))[j])]) :
        d \in ShapesFor("TpArrayString", held)}

HandleInputs ==
    {Arg(t, <<>>, <<"object">>) :
        t \in {"TpTable", "TpRecord", "TpOther", "TpQuantity", "TpArrayQuantity"}}

\* The call is over: the catch block has run if e was raised.  The host
\* hands a zeroed ExcInfo to every call.
Finish(fn, e, newio) ==
    /\ exc' = IF Raises(e) THEN [message |-> handle_exception(e, Zeroed)]
              ELSE [message |-> Zeroed]
    /\ last' = IF Raises(e)
               THEN [fn |-> fn, site |-> "inside", e |-> e, escaped |-> FALSE,
                     returns |-> CatchReturn(fn).returns, ret |-> CatchReturn(fn).ret]
               ELSE [fn |-> fn, site |-> "none", e |-> e, escaped |-> FALSE,
                     returns |-> NormalReturn(fn).returns, ret |-> NormalReturn(fn).ret]
    /\ io' = newio

Put(fn, name, rown, a) ==
    [fn |-> fn, name |-> name, rown |-> rown, data_type |-> a.data_type,
     n_dims |-> a.n_dims, dims |-> a.dims, data |-> a.data]

table_put_cell_with(name, rown, a) ==
    LET r == table_put_cell(table, SB(name), rown, a.data_type, a.n_dims,
                            a.dims, a.data)
    IN  /\ table' = r.table
        /\ host' = IF Raises(r.e) THEN host
                   ELSE Put("table_put_cell", name, rown, a)
        /\ Finish("table_put_cell", r.e,
               [NoIO EXCEPT !.name = name, !.rown = rown,
                            !.data_type = a.data_type, !.n_dims = a.n_dims,
                            !.tag = a.data_type, !.deref = r.deref,
                            !.changed = (r.table # table)])

\* the cell that exists is put to with every input, the others with the
\* inputs of the tag the column holds
Call_table_put_cell ==
    /\ table.live
    /\ \E target \in PutTargets :
         LET name == target[1]
             rown == target[2]
             held == trueDataType(table.cols["COL"])
             Tried(a) == target = <<"COL", 0>> \/ a.data_type = held
         IN  \/ \E a \in ScalarInputs(held) :
                   /\ Tried(a)
                   /\ table_put_cell_with(name, rown, a)
             \/ \E a \in StringInputs(held) :
                   /\ Tried(a)
                   /\ table_put_cell_with(name, rown, a)
             \/ \E a \in ArrayInputs(held) :
                   /\ Tried(a)
                   /\ table_put_cell_with(name, rown, a)
             \/ \E a \in StringArrayInputs(held) :
                   /\ Tried(a)
                   /\ table_put_cell_with(name, rown, a)
             \/ \E a \in HandleInputs :
                   /\ Tried(a)
                   /\ table_put_cell_with(name, rown, a)
    /\ UNCHANGED <<rec, row, heap>>

\* a call that reads a table: table_get_column_info, table_get_cell_info,
\* table_get_cell, table_get_scalar_column_data
TableRead(fn, name, rown, r, tag) ==
    /\ table.live
    /\ Finish(fn, r.e, [NoIO EXCEPT !.name = name, !.rown = rown, !.tag = tag,
                                    !.out = r.out])
    /\ UNCHANGED <<table, rec, row, host, heap>>

Call_table_get_column_info ==
    \E name \in ColNames :
        TableRead("table_get_column_info", name, 0,
                  table_get_column_info(table, SB(name)), "")

Call_table_get_cell_info ==
    \E name \in ColNames, rown \in RowNumbers :
        TableRead("table_get_cell_info", name, rown,
                  table_get_cell_info(table, SB(name), rown), "")

Call_table_get_cell ==
    \E name \in ColNames, rown \in RowNumbers :
        TableRead("table_get_cell", name, rown,
                  table_get_cell(table, SB(name), rown),
                  table_get_cell(table, SB(name), rown).tag)

Call_table_get_scalar_column_data ==
    \E name \in ColNames :
        TableRead("table_get_scalar_column_data", name, 0,
                  table_get_scalar_column_data(table, SB(name)),
                  table_get_scalar_column_data(table, SB(name)).tag)

Call_table_get_cell_string ==
    \E name \in ColNames, rown \in RowNumbers :
        TableRead("table_get_cell_string", name, rown,
                  table_get_cell_string(table, SB(name), rown), "")

Call_table_get_cell_string_array ==
    \E name \in ColNames, rown \in RowNumbers :
        TableRead("table_get_cell_string_array", name, rown,
                  table_get_cell_string_array(table, SB(name), rown), "")

Call_table_get_file_name ==
    TableRead("table_get_file_name", "", 0, table_get_file_name(table), "")

\* the tag the field A holds ("" if the record has no such field)
HeldBy(r) == IF HasField(r, "A") THEN r.fields["A"].type ELSE ""

tablerec_put_field_with(a) ==
    LET r == tablerec_put_field(rec, SB("A"), a.data_type, a.n_dims, a.dims, a.data)
    IN  /\ rec' = r.rec
        /\ host' = IF Raises(r.e) THEN host
                   ELSE Put("tablerec_put_field", "A", 0, a)
        /\ Finish("tablerec_put_field", r.e,
               [NoIO EXCEPT !.name = "A", !.data_type = a.data_type,
                            !.n_dims = a.n_dims, !.tag = a.data_type,
                            !.deref = r.deref, !.changed = (r.rec # rec)])

Call_tablerec_put_field ==
    /\ rec.live
    /\ \/ \E a \in ScalarInputs(HeldBy(rec)) : tablerec_put_field_with(a)
       \/ \E a \in StringInputs(HeldBy(rec)) : tablerec_put_field_with(a)
       \/ \E a \in ArrayInputs(HeldBy(rec)) : tablerec_put_field_with(a)
       \/ \E a \in StringArrayInputs(HeldBy(rec)) : tablerec_put_field_with(a)
       \/ \E a \in HandleInputs : tablerec_put_field_with(a)
    /\ UNCHANGED <<table, row, heap>>

\* a call that reads a record, or the record of a row cursor
RecordRead(fn, name, r, tag) ==
    /\ Finish(fn, r.e, [NoIO EXCEPT !.name = name, !.tag = tag, !.out = r.out])
    /\ UNCHANGED <<table, rec, row, host, heap>>

Call_tablerec_get_field_info ==
    /\ rec.live
    /\ \E name \in LookupNames("A") :
         RecordRead("tablerec_get_field_info", name,
                    tablerec_get_field_info(rec, SB(name)), "")

Call_tablerec_get_field ==
    /\ rec.live
    /\ \E name \in LookupNames("A") :
         RecordRead("tablerec_get_field", name,
                    tablerec_get_field(rec, SB(name)),
                    tablerec_get_field(rec, SB(name)).tag)

Call_tablerec_get_field_string ==
    /\ rec.live
    /\ \E name \in LookupNames("A") :
         RecordRead("tablerec_get_field_string", name,
                    tablerec_get_field_string(rec, SB(name)), "")

Call_tablerec_get_field_string_array ==
    /\ rec.live
    /\ \E name \in LookupNames("A") :
         RecordRead("tablerec_get_field_string_array", name,
                    tablerec_get_field_string_array(rec, SB(name)), "")

Call_tablerec_get_field_subrecord ==
    /\ rec.live
    /\ \E name \in LookupNames("A") :
         RecordRead("tablerec_get_field_subrecord", name,
                    tablerec_get_field_subrecord(rec, SB(name)), "")

\* the host holds a table of one column, or an empty record
Init ==
    /\ \/ (\E d \in ColumnDescs : table = table_alloc_and_open(d)) /\ rec = NoRecord
       \/ table = NoTable /\ rec = tablerec_create
    /\ row = NoRow
    /\ host = NoPut
    /\ heap = NoHeap
    /\ exc = [message |-> Zeroed]
    /\ last = [fn |-> "none", site |-> "none", e |-> NoExc, escaped |-> FALSE,
               returns |-> "none", ret |-> 0]
    /\ io = NoIO

Next ==
    \/ Call_table_put_cell
    \/ Call_table_get_column_info
    \/ Call_table_get_cell_info
    \/ Call_table_get_cell
    \/ Call_table_get_scalar_column_data
    \/ Call_table_get_cell_string
    \/ Call_table_get_cell_string_array
    \/ Call_table_get_file_name
    \/ Call_tablerec_put_field
    \/ Call_tablerec_get_field_info
    \/ Call_tablerec_get_field
    \/ Call_tablerec_get_field_string
    \/ Call_tablerec_get_field_string_array
    \/ Call_tablerec_get_field_subrecord

Spec == Init /\ [][Next]_vars

(***************************************************************************)
(* SpecRead: a host reading what an earlier run has left behind: a table   *)
(* of one column through its own entry points and through a row cursor,    *)
(* or a record.                                                            *)
(***************************************************************************)
Call_table_row_alloc ==
    /\ table.live
    /\ ~row.live
    /\ \E is_read_only \in {0, 1} : row' = table_row_alloc(table, is_read_only)
    /\ Finish("table_row_alloc", NoExc, NoIO)
    /\ UNCHANGED <<table, rec, host, heap>>

Call_table_row_read ==
    /\ row.live
    /\ \E rown \in RowNumbers :
         LET r == table_row_read(row, table, rown)
         IN  /\ row' = r.row
             /\ Finish("table_row_read", r.e, [NoIO EXCEPT !.rown = rown])
    /\ UNCHANGED <<table, rec, host, heap>>

Call_table_row_get_cell_info ==
    /\ row.live
    /\ \E name \in LookupNames("COL") :
         RecordRead("table_row_get_cell_info", name,
                    table_row_get_cell_info(row, SB(name)), "")

Call_table_row_get_cell ==
    /\ row.live
    /\ \E name \in LookupNames("COL") :
         RecordRead("table_row_get_cell", name,
                    table_row_get_cell(row, SB(name)),
                    table_row_get_cell(row, SB(name)).tag)

Call_table_row_get_cell_string ==
    /\ row.live
    /\ \E name \in LookupNames("COL") :
         RecordRead("table_row_get_cell_string", name,
                    table_row_get_cell_string(row, SB(name)), "")

Call_table_row_get_cell_string_array ==
    /\ row.live
    /\ \E name \in LookupNames("COL") :
         RecordRead("table_row_get_cell_string_array", name,
                    table_row_get_cell_string_array(row, SB(name)), "")

\* the table or the record after one put of a into the cell or field
StoredCell(t, a) ==
    table_put_cell(t, SB("COL"), 0, a.data_type, a.n_dims, a.dims, a.data).table

StoredField(r, a) ==
    tablerec_put_field(r, SB("A"), a.data_type, a.n_dims, a.dims, a.data).rec

\* the table holds what table_create left or what one table_put_cell
\* stored; the record what one tablerec_put_field stored
InitRead ==
    /\ \/ /\ \E d \in ColumnDescs :
               LET t == table_alloc_and_open(d)
                   held == trueDataType(d)
               IN  \/ table = t
                   \/ \E a \in ScalarInputs(held) : table = StoredCell(t, a)
                   \/ \E a \in StringInputs(held) : table = StoredCell(t, a)
                   \/ \E a \in ArrayInputs(held) : table = StoredCell(t, a)
                   \/ \E a \in StringArrayInputs(held) : table = StoredCell(t, a)
          /\ rec = NoRecord
       \/ /\ table = NoTable
          /\ \/ rec = tablerec_create
             \/ \E a \in ScalarInputs("") : rec = StoredField(tablerec_create, a)
             \/ \E a \in StringInputs("") : rec = StoredField(tablerec_create, a)
             \/ \E a \in ArrayInputs("TpArrayInt") :
                    rec = StoredField(tablerec_create, a)
             \/ \E a \in StringArrayInputs("TpArrayString") :
                    rec = StoredField(tablerec_create, a)
             \/ \E a \in HandleInputs : rec = StoredField(tablerec_create, a)
    /\ row = NoRow
    /\ host = NoPut
    /\ heap = NoHeap
    /\ exc = [message |-> Zeroed]
    /\ last = [fn |-> "none", site |-> "none", e |-> NoExc, escaped |-> FALSE,
               returns |-> "none", ret |-> 0]
    /\ io = NoIO

NextRead ==
    \/ Call_table_get_column_info
    \/ Call_table_get_cell_info
    \/ Call_table_get_cell
    \/ Call_table_get_scalar_column_data
    \/ Call_table_get_cell_string
    \/ Call_table_get_cell_string_array
    \/ Call_table_get_file_name
    \/ Call_tablerec_get_field_info
    \/ Call_tablerec_get_field
    \/ Call_tablerec_get_field_string
    \/ Call_tablerec_get_field_string_array
    \/ Call_tablerec_get_field_subrecord
    \/ Call_table_row_alloc
    \/ Call_table_row_read
    \/ Call_table_row_get_cell_info
    \/ Call_table_row_get_cell
    \/ Call_table_row_get_cell_string
    \/ Call_table_row_get_cell_string_array

SpecRead == InitRead /\ [][NextRead]_vars

LastRaised == last.e.kind # "none"

\* C1: every entry point that takes an ExcInfo reports an exception raised
\* inside it through its return value: NULL from a handle-returning call, a
\* nonzero status from an action call (the free/close calls included).
\* (Stated of the exceptions the entry point catches; the ones that leave
\* it are the subject of C2.)
C1_RaisedIsReturned ==
    (LastRaised /\ ~last.escaped /\ EntryPoints[last.fn].exc)
        => /\ last.returns = "value"
           /\ EntryPoints[last.fn].ret = "ptr" => last.ret = NULL
           /\ EntryPoints[last.fn].ret # "ptr" => last.ret # 0

\* C2: no native exception ever leaves an exported function: whatever
\* native code raises in an entry point is caught in that entry point.
C2_NothingEscapes == LastRaised => ~last.escaped

\* C3: after an entry point caught an exception, ExcInfo.message holds a
\* NUL-terminated string of at most 511 bytes, namely the first
\* min(len, 511) bytes of what() for a std::exception and the generic
\* placeholder for anything else, and no byte outside the 512-byte buffer
\* was written.
C3_MessageFitsBuffer ==
    (LastRaised /\ ~last.escaped)
        => /\ Len(exc.message) = BufSize
           /\ FirstNul(exc.message) <= BufSize - 1
           /\ CStr(exc.message) =
                IF last.e.kind = "std"
                THEN SubSeq(last.e.what, 1, Min(Len(last.e.what), BufSize - 1))
                ELSE GenericMsg

\* a status-returning call failed on a message longer than the buffer
C3_Witness ==
    /\ LastRaised /\ ~last.escaped
    /\ last.returns = "value" /\ last.ret = 1
    /\ last.e.kind = "std"
    /\ Len(last.e.what) > BufSize

(***************************************************************************)
(* What the last call was about, read from the state it ran in (the calls  *)
(* below change neither the table nor the records nor the row cursor).     *)
(***************************************************************************)
Failed == last.returns = "value" /\ last.ret = 1

Succeeded == last.returns = "value" /\ last.ret = 0

Message == CStr(exc.message)

NoTarget == Field("", Undefined)

RecordFns ==
    {"tablerec_get_field_info", "tablerec_get_field", "tablerec_get_field_string",
     "tablerec_get_field_string_array", "tablerec_get_field_subrecord"}

RowFns ==
    {"table_row_get_cell_info", "table_row_get_cell", "table_row_get_cell_string",
     "table_row_get_cell_string_array"}

\* the value the last call was asked for: its tag and what it holds
Target ==
    IF last.fn \in {"table_get_cell_info", "table_get_cell", "table_get_cell_string",
                   "table_get_cell_string_array"}
    THEN IF HasColumn(table, io.name) /\ io.rown < table.nrow
         THEN Field(trueDataType(table.cols[io.name]), table.cells[io.name][io.rown])
         ELSE NoTarget
    ELSE IF last.fn \in {"table_get_column_info", "table_get_scalar_column_data"}
    THEN IF HasColumn(table, io.name)
         THEN Field(trueDataType(table.cols[io.name]),
                    Value(table.cols[io.name].shape, <<>>))
         ELSE NoTarget
    ELSE IF last.fn \in RecordFns
    THEN IF HasField(rec, io.name) THEN rec.fields[io.name] ELSE NoTarget
    ELSE IF last.fn \in RowFns
    THEN IF HasField(row, io.name) THEN row.fields[io.name] ELSE NoTarget
    ELSE NoTarget

TargetRank == Len(Target.v.shape)

\* C4: at every describe granularity, describing a value of more than 8
\* dimensions returns failure with a dimensionality error and stores no
\* element outside dims[0..7]
C4_RankAbove8Refused ==
    (/\ last.fn \in {"table_get_column_info", "table_get_cell_info",
                     "tablerec_get_field_info", "table_row_get_cell_info"}
     /\ TargetRank > MaxDims)
        => /\ Failed
           /\ Contains(Message, "dimensionality greater than 8")
           /\ \A store \in io.out.dims : store[1] \in 0..(MaxDims - 1)

\* C5: table_put_cell with an array tag and more than 8 dimensions returns
\* failure with a dimensionality error and leaves the table as it was
\* (stated of the puts no other check of the call refuses: an existing cell
\* of a variable-shape column of the tag's own element kind)
C5_Rank9PutRefused ==
    (/\ last.fn = "table_put_cell"
     /\ io.data_type \in ArrayTags
     /\ io.n_dims > MaxDims
     /\ io.name = "COL" /\ io.rown = 0
     /\ table.cols["COL"].array /\ ~table.cols["COL"].fixed
     /\ AsArray(table.cols["COL"].elem) = io.data_type)
        => /\ Failed
           /\ Contains(Message, "dimensionality")
           /\ ~io.changed

\* the scalar tags of C6: every scalar kind but String, Table and Record
RoundTripTags == NumericTags

\* the last put went to the cell (COL, 0) of a scalar column of its own tag
MatchingScalarPut ==
    /\ last.fn = "table_put_cell"
    /\ io.name = "COL" /\ io.rown = 0
    /\ io.data_type \in RoundTripTags
    /\ ~table.cols["COL"].array
    /\ table.cols["COL"].elem = io.data_type

\* the last call got the cell that the last successful put stored
GetAfterPut ==
    /\ last.fn = "table_get_cell"
    /\ host.fn = "table_put_cell"
    /\ io.name = host.name /\ io.rown = host.rown

\* C6: table_put_cell of a scalar of a numeric tag (Bool .. DComplex, Int64)
\* on a column of that tag succeeds, and table_get_cell of the same cell
\* then returns exactly the bytes that were put
C6_ScalarRoundTrip ==
    /\ MatchingScalarPut => Succeeded
    /\ (GetAfterPut /\ host.data_type \in RoundTripTags)
           => Succeeded /\ io.out.data = host.data

\* the entry point a generic get names for a string and for a string array
Dedicated ==
    [ table_get_cell |->
          [TpString |-> "table_get_cell_string",
           TpArrayString |-> "table_get_cell_string_array"],
      table_get_scalar_column_data |->
          [TpString |-> "table_get_scalar_column_data_string",
           TpArrayString |-> "table_get_scalar_column_data_string"],
      tablerec_get_field |->
          [TpString |-> "tablerec_get_field_string",
           TpArrayString |-> "tablerec_get_field_string_array"],
      table_row_get_cell |->
          [TpString |-> "tablerec_get_field_string",
           TpArrayString |-> "tablerec_get_field_string_array"] ]

GenericGetOfString ==
    /\ last.fn \in DOMAIN Dedicated
    /\ Target.v.def
    /\ Target.type \in {"TpString", "TpArrayString"}

\* C7: a generic get (table_get_cell, table_get_scalar_column_data,
\* tablerec_get_field, table_row_get_cell) of a value that is a string or an
\* array of strings returns failure with a message naming the dedicated
\* entry point and stores nothing into the caller's data buffer
C7_StringsRedirected ==
    GenericGetOfString
        => /\ Failed
           /\ Contains(Message, Dedicated[last.fn][Target.type])
           /\ "data" \notin io.out.wrote
           /\ io.out.data = <<>>

C7_Witness ==
    /\ GenericGetOfString
    /\ last.fn = "table_row_get_cell"
    /\ Target.type = "TpArrayString"
    /\ Len(Target.v.data) > 1
    /\ Failed

\* the tags no dispatch enumerates, according to C8
NotEnumerated == {"TpQuantity", "TpArrayQuantity", "TpOther", "TpTable"}

Dispatching ==
    last.fn \in {"table_get_cell", "table_put_cell", "table_get_scalar_column_data",
                 "tablerec_get_field", "tablerec_put_field"}

Unhandled ==
    /\ Failed
    /\ Contains(Message, "unhandled") /\ Contains(Message, "data type")
    /\ ~io.deref
    /\ ~io.changed
    /\ io.out = NoOut

\* C8 as stated: in each of the five generic dispatches a tag of Quantity,
\* Array-of-Quantity, Other or Table returns failure with an 'unhandled data
\* type' error, reads nothing through a caller pointer and changes nothing
C8_NotEnumeratedRefused ==
    (Dispatching /\ io.tag \in NotEnumerated) => Unhandled

TableIntoRecord == last.fn = "tablerec_put_field" /\ io.tag = "TpTable"

\* C8, amended: the same, except that tablerec_put_field has an arm for the
\* tag Table: it reads the table behind the data pointer and, unless the
\* field exists with another tag, defines a field of tag Table
C8_NotEnumeratedRefusedButTableField ==
    /\ (Dispatching /\ io.tag \in NotEnumerated /\ ~TableIntoRecord) => Unhandled
    /\ TableIntoRecord
          => /\ io.deref
             /\ Succeeded => (HasField(rec, "A") /\ rec.fields["A"].type = "TpTable")
             /\ Failed => (~io.changed /\ ~Contains(Message, "unhandled"))

C8_Witness ==
    /\ TableIntoRecord
    /\ Succeeded
    /\ io.changed

\* the lookups by field name, in a record or in the record of a row cursor
LookupOfMissing ==
    \/ last.fn \in RecordFns /\ ~HasField(rec, io.name)
    \/ last.fn \in RowFns /\ ~HasField(row, io.name)

NotFoundPrefixes == {"unrecognized column name: ", "unrecognized keyword name: "}

\* C9 as stated: a lookup of a name the record does not contain returns
\* failure with an 'unrecognized ... name' message that contains the name,
\* stores no out-parameter and no data, and calls the callback zero times
C9_MissingNameReported ==
    LookupOfMissing
        => /\ Failed
           /\ \E p \in NotFoundPrefixes : SubSeq(Message, 1, Len(p)) = p
           /\ Contains(Message, io.name)
           /\ io.out = NoOut

\* C9, amended: the message is 'unrecognized column name: ' or 'unrecognized
\* keyword name: ' followed by the name, cut to the 511 bytes the buffer
\* holds: it contains the name only as far as it fits
C9_MissingNameReportedCut ==
    LookupOfMissing
        => /\ Failed
           /\ \E p \in NotFoundPrefixes :
                 Message = SubSeq(p \o io.name, 1, Min(Len(p \o io.name), BufSize - 1))
           /\ io.out = NoOut

C9_Witness ==
    /\ LookupOfMissing
    /\ last.fn = "table_row_get_cell_string_array"
    /\ io.name = LongName
    /\ Failed
    /\ ~Contains(Message, io.name)

\* the describe call that reads back what the put of host stored
DescribesPut ==
    \/ /\ last.fn = "table_get_cell_info" /\ host.fn = "table_put_cell"
       /\ io.name = host.name /\ io.rown = host.rown
       /\ ~table.cols[host.name].fixed
    \/ /\ last.fn = "tablerec_get_field_info" /\ host.fn = "tablerec_put_field"
       /\ io.name = host.name

\* C10: an array put with a host-order shape of rank 1..8 (table_put_cell on
\* a variable-shape column, tablerec_put_field) is described (by
\* table_get_cell_info, tablerec_get_field_info) with n_dim equal to the rank
\* and dims equal to the shape that was put, in the same order
C10_ShapeRoundTrip ==
    (/\ DescribesPut
     /\ host.data_type \in ArrayTags
     /\ host.n_dims \in 1..MaxDims)
        => /\ Succeeded
           /\ {"n_dim", "dims"} \subseteq io.out.wrote
           /\ io.out.n_dim = host.n_dims
           /\ io.out.dims = {<<i - 1, host.dims[i]>> : i \in 1..host.n_dims}

C10_Witness ==
    /\ DescribesPut
    /\ last.fn = "table_get_cell_info"
    /\ host.data_type = "TpArrayDComplex"
    /\ host.dims = HostShape(MaxDims)
    /\ Succeeded
    /\ io.out.n_dim = MaxDims

\* the native string a scalar-string getter was asked for
NativeString ==
    IF last.fn = "table_get_file_name" THEN tableName(table)
    ELSE Target.v.data[1]

\* C11: a scalar-string getter (table_get_cell_string,
\* tablerec_get_field_string, table_row_get_cell_string, table_get_file_name)
\* that returns success has called the callback exactly once, within the
\* call, with the bytes of the native string and n_bytes equal to its
\* length; one that returns failure has not called it
C11_OneCallbackOrNone ==
    last.fn \in {"table_get_cell_string", "tablerec_get_field_string",
                 "table_row_get_cell_string", "table_get_file_name"}
        => /\ Succeeded \/ Failed
           /\ Succeeded => /\ Len(io.out.cb) = 1
                           /\ io.out.cb[1].n_bytes = Len(NativeString)
                           /\ io.out.cb[1].data = NativeString
           /\ Failed => io.out.cb = <<>>

C11_Witness ==
    /\ last.fn = "table_row_get_cell_string"
    /\ Succeeded
    /\ Len(io.out.cb) = 1
    /\ io.out.cb[1].n_bytes = 3

\* the last call read back, through the string-array callback, what the
\* last successful put stored
StringArrayGetAfterPut ==
    \/ /\ last.fn = "table_get_cell_string_array" /\ host.fn = "table_put_cell"
       /\ io.name = host.name /\ io.rown = host.rown
    \/ /\ last.fn = "tablerec_get_field_string_array"
       /\ host.fn = "tablerec_put_field"
       /\ io.name = host.name

\* C12: after k strings were put with the Array-of-String tag and a shape
\* of rank 1..8 whose extents multiply to k (table_put_cell,
\* tablerec_put_field), reading them back (table_get_cell_string_array,
\* tablerec_get_field_string_array) succeeds and calls the callback exactly
\* k times, the i-th call with the bytes of the i-th string the host put
C12_StringArrayRoundTrip ==
    (/\ StringArrayGetAfterPut
     /\ host.data_type = "TpArrayString"
     /\ host.n_dims \in 1..MaxDims)
        => /\ Succeeded
           /\ Len(io.out.cb) = Product(host.dims)
           /\ Len(io.out.cb) = Len(host.data)
           /\ \A i \in 1..Len(host.data) :
                 /\ io.out.cb[i].n_bytes = host.data[i].n_bytes
                 /\ io.out.cb[i].data =
                        SubSeq(host.data[i].data, 1, host.data[i].n_bytes)

C12_Witness ==
    /\ StringArrayGetAfterPut
    /\ last.fn = "table_get_cell_string_array"
    /\ host.data_type = "TpArrayString"
    /\ host.dims = HostShape(MaxDims)
    /\ Succeeded
    /\ Len(io.out.cb) = 6
    /\ io.out.cb[4].data = "abc"

\* the last call put a String to a target that takes a String: the cell
\* (COL, 0) of a scalar String column, or the field A where no field of
\* another tag has that name
MatchingStringPut ==
    /\ io.data_type = "TpString"
    /\ \/ /\ last.fn = "table_put_cell"
          /\ io.name = "COL" /\ io.rown = 0
          /\ trueDataType(table.cols["COL"]) = "TpString"
       \/ /\ last.fn = "tablerec_put_field" /\ io.name = "A"
          /\ HasField(rec, "A") => rec.fields["A"].type = "TpString"

\* the last call read back, through the string callback, what the last
\* successful put stored
StringGetAfterPut ==
    \/ /\ last.fn = "table_get_cell_string" /\ host.fn = "table_put_cell"
       /\ io.name = host.name /\ io.rown = host.rown
    \/ /\ last.fn = "tablerec_get_field_string" /\ host.fn = "tablerec_put_field"
       /\ io.name = host.name

\* C13: a StringBridge of n_bytes = 0 is bridged to the empty native string;
\* putting a String (the empty one included) to a String target succeeds,
\* and reading back an n_bytes = 0 put through the string callback gives
\* one view with n_bytes = 0
C13_EmptyStringRoundTrip ==
    /\ bridge_string(EmptyBridge) = ""
    /\ MatchingStringPut => Succeeded
    /\ (/\ StringGetAfterPut
        /\ host.data_type = "TpString"
        /\ host.data[1].n_bytes = 0)
           => /\ Succeeded
              /\ Len(io.out.cb) = 1
              /\ io.out.cb[1].n_bytes = 0

C13_Witness ==
    /\ StringGetAfterPut
    /\ last.fn = "table_get_cell_string"
    /\ host.data_type = "TpString"
    /\ host.data = <<EmptyBridge>>
    /\ Succeeded
    /\ io.out.cb = <<SB("")>>

\* the width in bytes of a value of each fixed-size scalar tag
NativeWidth ==
    [ TpBool |-> 1, TpChar |-> 1, TpUChar |-> 1, TpShort |-> 2, TpUShort |-> 2,
      TpInt |-> 4, TpUInt |-> 4, TpFloat |-> 4, TpDouble |-> 8,
      TpComplex |-> 8, TpDComplex |-> 16, TpInt64 |-> 8 ]

MaxObjs == 3

\* what native code raises in a constructor, a destructor or a lookup
Faults == {StdExc(Repeat("e", 12)), OtherExc}

TableDescCreateModes == {"TDM_NEW", "TDM_NEW_NO_REPLACE", "TDM_SCRATCH"}

TableCreateModes == {"TCM_NEW", "TCM_NEW_NO_REPLACE", "TCM_SCRATCH"}

TableOpenModes == {"TOM_OPEN_READONLY", "TOM_OPEN_RW", "TOM_CREATE"}

\* an integer that is no member of the mode's enum
NoMode == "(mode) 99"

\* (a switch (mode) without the default: label)
mode_unchecked(mode) == NoExc

\* switch (mode) of tabledesc_create
tabledesc_create_mode(mode) ==
    IF mode \in TableDescCreateModes THEN NoExc
    ELSE StdExc("invalid TableDescCreateMode")

\* switch (mode) of table_create
table_create_mode(mode) ==
    IF mode \in TableCreateModes THEN NoExc
    ELSE StdExc("invalid TableCreateMode")

\* new T(...): the object T makes; of is the table a row cursor is bound to
\* and writable whether the cursor is a TableRow
New(h, kind, of, writable) ==
    [h EXCEPT !.objs = Append(@, [kind |-> kind, state |-> "live", of |-> of,
                                  writable |-> writable])]

\* delete p: the destructor runs, then the storage is released, whether
\* the destructor raised or not
Delete(h, a) == [h EXCEPT !.objs[a].state = "freed"]

Handle(a) == [obj |-> a, part |-> "self"]

Live(kind) ==
    {a \in 1..Len(heap.objs) :
        heap.objs[a].kind = kind /\ heap.objs[a].state = "live"}

\* the call is over, with the heap h
HeapFinish(fn, e, h, mode, arg, ptr) ==
    /\ Finish(fn, e, [NoIO EXCEPT !.mode = mode, !.arg = arg, !.ptr = ptr])
    /\ heap' = h
    /\ UNCHANGED <<table, rec, row, host>>

\* try { [switch (mode)] return new T(...); } catch (...) { return NULL; }
Alloc(fn, pre, kind, of, writable, mode, arg) ==
    /\ Len(heap.objs) < MaxObjs
    /\ IF Raises(pre)
       THEN HeapFinish(fn, pre, heap, mode, arg, NullPtr)
       ELSE \/ HeapFinish(fn, NoExc, New(heap, kind, of, writable), mode, arg,
                          Handle(Len(heap.objs) + 1))
            \/ \E e \in Faults : HeapFinish(fn, e, heap, mode, arg, NullPtr)

\* (a free call whose object stays live when its destructor raises)
Free_unless_raised(fn, a) ==
    \/ HeapFinish(fn, NoExc, Delete(heap, a), "", Handle(a), NullPtr)
    \/ \E e \in Faults : HeapFinish(fn, e, heap, "", Handle(a), NullPtr)

\* try { delete p; return 0; } catch (...) { return 1; }
Free(fn, a) ==
    \/ HeapFinish(fn, NoExc, Delete(heap, a), "", Handle(a), NullPtr)
    \/ \E e \in Faults : HeapFinish(fn, e, Delete(heap, a), "", Handle(a), NullPtr)

\* (a keyword call that returns a copy of the record: a new object)
KeywordSet_copied(fn, a, part) ==
    Alloc(fn, NoExc, "record", 0, TRUE, "", Handle(a))

\* try { return &x.keywordSet(); } catch (...) { return NULL; }
KeywordSet(fn, a, part) ==
    \/ HeapFinish(fn, NoExc, heap, "", Handle(a), [obj |-> a, part |-> part])
    \/ \E e \in Faults : HeapFinish(fn, e, heap, "", Handle(a), NullPtr)

Heap_tablerec_create ==
    Alloc("tablerec_create", NoExc, "record", 0, TRUE, "", NullPtr)

\* the TableRecord pointers a host holds: its records and the keyword
\* records of its tables and table descriptions
RecordPointers ==
    {Handle(a) : a \in Live("record")}
        \cup {[obj |-> a, part |-> p] :
                 a \in Live("table") \cup Live("desc"),
                 p \in {"keywordSet", "column keywordSet"}}

Heap_tablerec_copy ==
    \E other \in RecordPointers :
        Alloc("tablerec_copy", NoExc, "record", 0, TRUE, "", other)

Heap_tabledesc_create ==
    \E mode \in TableDescCreateModes \cup {NoMode} :
        Alloc("tabledesc_create", tabledesc_create_mode(mode), "desc", 0, TRUE,
              mode, NullPtr)

Heap_table_create ==
    \E desc \in Live("desc"), mode \in TableCreateModes \cup {NoMode} :
        Alloc("table_create", table_create_mode(mode), "table", 0, TRUE,
              mode, Handle(desc))

Heap_table_alloc_and_open ==
    \E mode \in TableOpenModes \cup {NoMode} :
        Alloc("table_alloc_and_open", NoExc, "table", 0, TRUE, mode, NullPtr)

Heap_table_row_alloc ==
    \E t \in Live("table"), is_read_only \in {0, 1} :
        Alloc("table_row_alloc", NoExc, "row", t, is_read_only = 0,
              IF is_read_only = 0 THEN "read-write" ELSE "read-only", Handle(t))

Heap_tablerec_free == \E a \in Live("record") : Free("tablerec_free", a)

Heap_table_row_free == \E a \in Live("row") : Free("table_row_free", a)

Heap_table_close_and_free ==
    \E a \in Live("table") : Free("table_close_and_free", a)

Heap_table_get_keywords ==
    \E a \in Live("table") : KeywordSet("table_get_keywords", a, "keywordSet")

Heap_table_get_column_keywords ==
    \E a \in Live("table") :
        KeywordSet("table_get_column_keywords", a, "column keywordSet")

Heap_tabledesc_get_keywords ==
    \E a \in Live("desc") : KeywordSet("tabledesc_get_keywords", a, "keywordSet")

Heap_tabledesc_get_column_keywords ==
    \E a \in Live("desc") :
        KeywordSet("tabledesc_get_column_keywords", a, "column keywordSet")

InitHeap ==
    /\ table = NoTable
    /\ rec = NoRecord
    /\ row = NoRow
    /\ host = NoPut
    /\ heap = NoHeap
    /\ exc = [message |-> Zeroed]
    /\ last = [fn |-> "none", site |-> "none", e |-> NoExc, escaped |-> FALSE,
               returns |-> "none", ret |-> 0]
    /\ io = NoIO

NextHeap ==
    \/ Heap_tablerec_create
    \/ Heap_tablerec_copy
    \/ Heap_tabledesc_create
    \/ Heap_table_create
    \/ Heap_table_alloc_and_open
    \/ Heap_table_row_alloc
    \/ Heap_tablerec_free
    \/ Heap_table_row_free
    \/ Heap_table_close_and_free
    \/ Heap_table_get_keywords
    \/ Heap_table_get_column_keywords
    \/ Heap_tabledesc_get_keywords
    \/ Heap_tabledesc_get_column_keywords

SpecHeap == InitHeap /\ [][NextHeap]_vars

(***************************************************************************)
(* Properties of the handles (SpecHeap).                                   *)
(***************************************************************************)
AllocFns ==
    {"tablerec_create", "tablerec_copy", "tabledesc_create", "table_create",
     "table_alloc_and_open", "table_row_alloc"}

\* the message the catch block leaves for the exception of the last call
Populated(message, e) ==
    /\ FirstNul(message) <= BufSize - 1
    /\ CStr(message) = IF e.kind = "std"
                       THEN SubSeq(e.what, 1, Min(Len(e.what), BufSize - 1))
                       ELSE GenericMsg

\* C15: an allocation call (tablerec_create, tablerec_copy,
\* tabledesc_create, table_create, table_alloc_and_open, table_row_alloc)
\* either returns a non-NULL handle to a new live object and leaves ExcInfo
\* as the host passed it, or returns NULL with a message in ExcInfo and no new object;
\* tabledesc_create and table_create given a mode outside the enum do the
\* latter
C15_AllocOutcomes ==
    [][last'.fn \in AllocFns =>
         LET made == /\ last'.ret # NULL
                     /\ exc'.message = Zeroed
                     /\ Len(heap'.objs) = Len(heap.objs) + 1
                     /\ io'.ptr = Handle(Len(heap'.objs))
                     /\ heap'.objs[io'.ptr.obj].state = "live"
                     /\ SubSeq(heap'.objs, 1, Len(heap.objs)) = heap.objs
             failed == /\ last'.ret = NULL
                       /\ io'.ptr = NullPtr
                       /\ Populated(exc'.message, last'.e)
                       /\ heap'.objs = heap.objs
         IN  /\ last'.returns = "value"
             /\ made \/ failed
             /\ ~(made /\ failed)
             /\ (last'.fn \in {"tabledesc_create", "table_create"}
                 /\ io'.mode = NoMode) => failed]_vars

C15_Witness ==
    /\ last.fn = "table_create"
    /\ io.mode = NoMode
    /\ last.ret = NULL
    /\ CStr(exc.message) = "invalid TableCreateMode"
    /\ Live("table") = {}

FreeFns == {"tablerec_free", "table_row_free", "table_close_and_free"}

\* C16: a free call on a live handle (tablerec_free, table_row_free,
\* table_close_and_free) leaves the handle freed whether the destructor
\* raised or not; when it raised, the exception was caught and its message
\* is in ExcInfo
C16_FreedOnEveryPath ==
    [][last'.fn \in FreeFns =>
          /\ io'.arg.part = "self"
          /\ heap.objs[io'.arg.obj].state = "live"
          /\ heap'.objs[io'.arg.obj].state = "freed"
          /\ \A a \in 1..Len(heap.objs) :
                a # io'.arg.obj => heap'.objs[a] = heap.objs[a]
          /\ ~last'.escaped
          /\ LastRaised' => Populated(exc'.message, last'.e)
          /\ ~LastRaised' => exc'.message = Zeroed]_vars

C16_Witness ==
    /\ last.fn = "table_close_and_free"
    /\ last.e = StdExc(Repeat("e", 12))
    /\ heap.objs[io.arg.obj].state = "freed"
    /\ CStr(exc.message) = Repeat("e", 12)

KeywordFns ==
    {"table_get_keywords", "table_get_column_keywords", "tabledesc_get_keywords",
     "tabledesc_get_column_keywords"}

RecordAllocFns == {"tablerec_create", "tablerec_copy"}

\* the last call returned a pointer to an object of its own, the newest
\* one: no earlier call returned it
OwnedRecord ==
    /\ io.ptr.part = "self"
    /\ heap.objs[io.ptr.obj].kind = "record"
    /\ heap.objs[io.ptr.obj].state = "live"
    /\ io.ptr.obj = Len(heap.objs)

RowRows == 2

\* their addresses, in the order the host made them
SrcTable == NULL + 1

DestTable == SrcTable + 1

SrcRow == DestTable + 1

DestRow == SrcRow + 1

Cursors == {SrcRow, DestRow}

\* the table a cursor was bound to at its allocation
BoundTable(c) == IF c = SrcRow THEN SrcTable ELSE DestTable

\* the columns of the two tables: strings, or arrays of variable shape
RowDescs ==
    {ColumnDesc("TpString", FALSE, FALSE, <<>>, 0),
     ColumnDesc("TpInt", TRUE, FALSE, <<>>, -1)}

\* what the rows hold at the start: every cell another value, and no array
\* in the last row of the first table
FirstCell(d, a, r) ==
    IF ~d.array THEN Value(<<>>, <<SubSeq("abcdef", 1, 3 * a - r)>>)
    ELSE IF a = SrcTable /\ r = RowRows - 1 THEN Undefined
    ELSE Value(<<a + r>>, HostElems("Int", a + r))

FirstTable(d, a) ==
    [live |-> TRUE,
     cols |-> [c \in {"COL"} |-> d],
     nrow |-> RowRows,
     cells |-> [c \in {"COL"} |-> [r \in 0..(RowRows - 1) |-> FirstCell(d, a, r)]]]

\* the rows a host writes: the last one and one past the end
RowsWritten == {RowRows - 1, RowRows}

\* the call on a cursor is over, with the objects objs
RowFinish(fn, e, objs, newio) ==
    /\ Finish(fn, e, newio)
    /\ heap' = [heap EXCEPT !.objs = objs]
    /\ UNCHANGED <<table, rec, row, host>>

Row_table_row_read ==
    \E c \in Cursors, rown \in 0..RowRows :
        LET r == table_row_read(heap.objs[c], heap.objs[BoundTable(c)], rown)
        IN  RowFinish("table_row_read", r.e, [heap.objs EXCEPT ![c] = r.row],
                      [NoIO EXCEPT !.arg = Handle(c), !.rown = rown])

Row_table_row_copy_and_put ==
    \E src \in {SrcRow}, dest \in {DestRow}, rown \in RowsWritten :
        /\ \E dest_row \in Downcast(heap.objs[dest]) :
             LET r == table_row_copy_and_put(heap.objs[src], rown, dest_row,
                                             heap.objs[BoundTable(dest)])
             IN  RowFinish("table_row_copy_and_put", r.e,
                           [heap.objs EXCEPT ![BoundTable(dest)] = r.table],
                           [NoIO EXCEPT !.arg = Handle(src), !.rown = rown,
                                        !.dest = Handle(dest),
                                        !.changed = (r.table # heap.objs[BoundTable(dest)])])

Row_table_row_put_cell_with(c, a) ==
    \E as_row \in Downcast(heap.objs[c]) :
        LET r == table_row_put_cell(heap.objs[c], as_row, SB("COL"), a.data_type,
                                    a.n_dims, a.dims, a.data)
        IN  RowFinish("table_row_put_cell", r.e, [heap.objs EXCEPT ![c] = r.row],
                      [NoIO EXCEPT !.arg = Handle(c), !.name = "COL",
                                   !.data_type = a.data_type, !.n_dims = a.n_dims,
                                   !.tag = a.data_type, !.deref = r.deref])

\* a host puts a string or an array: one is of the tag of the column, the
\* other is not
Row_table_row_put_cell ==
    \E c \in {DestRow} :
        \/ Row_table_row_put_cell_with(c, Arg("TpString", <<>>, <<SB("xy")>>))
        \/ Row_table_row_put_cell_with(c, Arg("TpArrayInt", <<4>>, HostElems("Int", 4)))

Row_table_row_write ==
    \E c \in {DestRow}, rown \in RowsWritten :
        \E as_row \in Downcast(heap.objs[c]) :
            LET r == table_row_write(heap.objs[c], as_row, rown,
                                     heap.objs[BoundTable(c)])
            IN  RowFinish("table_row_write", r.e,
                          [heap.objs EXCEPT ![BoundTable(c)] = r.table],
                          [NoIO EXCEPT !.arg = Handle(c), !.rown = rown,
                                       !.dest = Handle(c),
                                       !.changed = (r.table # heap.objs[BoundTable(c)])])

RowRead(fn, c, name, r) ==
    RowFinish(fn, r.e, heap.objs,
              [NoIO EXCEPT !.arg = Handle(c), !.name = name, !.out = r.out])

Row_table_row_get_cell ==
    \E c \in Cursors :
        RowRead("table_row_get_cell", c, "COL",
                table_row_get_cell(heap.objs[c], SB("COL")))

Row_table_row_get_cell_string ==
    \E c \in Cursors :
        RowRead("table_row_get_cell_string", c, "COL",
                table_row_get_cell_string(heap.objs[c], SB("COL")))

InitRow ==
    /\ table = NoTable
    /\ rec = NoRecord
    /\ row = NoRow
    /\ host = NoPut
    /\ \E d \in RowDescs, src_read_only \in {1}, dest_read_only \in {0, 1} :
          heap = [NoHeap EXCEPT !.objs =
                     << FirstTable(d, SrcTable), FirstTable(d, DestTable),
                        table_row_alloc(FirstTable(d, SrcTable), src_read_only),
                        table_row_alloc(FirstTable(d, DestTable), dest_read_only) >>]
    /\ exc = [message |-> Zeroed]
    /\ last = [fn |-> "none", site |-> "none", e |-> NoExc, escaped |-> FALSE,
               returns |-> "none", ret |-> 0]
    /\ io = NoIO

NextRow ==
    \/ Row_table_row_read
    \/ Row_table_row_copy_and_put
    \/ Row_table_row_put_cell
    \/ Row_table_row_write
    \/ Row_table_row_get_cell
    \/ Row_table_row_get_cell_string

SpecRow == InitRow /\ [][NextRow]_vars

(***************************************************************************)
(* Properties of the row cursor (SpecRow).                                 *)
(***************************************************************************)
RowWriteFns == {"table_row_write", "table_row_put_cell", "table_row_copy_and_put"}

\* the cursor the last call would write through
Written == IF last.fn = "table_row_put_cell" THEN io.arg.obj ELSE io.dest.obj

\* C18: a row cursor allocated with is_read_only # 0 never writes:
\* table_row_write, table_row_put_cell and table_row_copy_and_put with that
\* cursor as destination are rejected and change no row of the table the
\* cursor is bound to
C18_ReadOnlyCursorNeverWrites ==
    (last.fn \in RowWriteFns /\ ~heap.objs[Written].writable)
        => /\ Failed
           /\ ~io.changed

\* C19: when table_row_read(src, n) has succeeded on a read-only cursor and
\* table_row_copy_and_put(src, m, dest) then succeeds on a read-write
\* cursor, row m of the table of dest holds, for every field defined in row
\* n of the table of src, the value of that field (a string byte for
\* byte), and the cursor src (its record and its defined fields) and its
\* table are as they were
C19_CopyAndPut ==
    [][(/\ last.fn = "table_row_read" /\ Succeeded
        /\ ~heap.objs[io.arg.obj].writable
        /\ last'.fn = "table_row_copy_and_put" /\ Succeeded'
        /\ io'.arg = io.arg
        /\ heap.objs[io'.dest.obj].writable)
          => LET src == io.arg.obj
                 n == io.rown
                 m == io'.rown
                 from == heap.objs[BoundTable(src)]
                 to == heap'.objs[BoundTable(io'.dest.obj)]
             IN  /\ \A c \in DOMAIN from.cols :
                       from.cells[c][n].def => to.cells[c][m] = from.cells[c][n]
                 /\ heap'.objs[src] = heap.objs[src]
                 /\ getDefined(heap'.objs[src]) = getDefined(heap.objs[src])
                 /\ heap'.objs[BoundTable(src)] = from]_vars

C19_Witness ==
    /\ last.fn = "table_row_copy_and_put"
    /\ Succeeded
    /\ io.arg = Handle(SrcRow) /\ io.dest = Handle(DestRow)
    /\ heap.objs[DestRow].writable
    /\ io.rown = RowRows - 1
    /\ heap.objs[SrcTable].cols["COL"].elem = "TpString"
    /\ heap.objs[SrcRow].fields["COL"].v = Value(<<>>, <<"abc">>)
    /\ heap.objs[DestTable].cells["COL"][io.rown] = heap.objs[SrcTable].cells["COL"][0]

\* the cursor the last call was given and the table it is bound to
Cursor == heap.objs[io.arg.obj]

CursorTable == heap.objs[BoundTable(io.arg.obj)]

\* C20: table_row_read of a row the table has succeeds and leaves in the
\* cursor's record the fields of that row and nothing of the rows read
\* before; with a row number >= the row count it fails with a message and
\* leaves the record as it was; table_row_get_cell and
\* table_row_get_cell_string hand back what the record holds, which is the
\* row of the last read that succeeded
C20_RecordIsLastRowRead ==
    [][/\ last'.fn = "table_row_read"
          => /\ Succeeded' \/ Failed'
             /\ Succeeded' <=> io'.rown < CursorTable'.nrow
             /\ Succeeded'
                   => Cursor'.fields =
                         [c \in DOMAIN CursorTable'.cols |->
                             Field(trueDataType(CursorTable'.cols[c]),
                                   CursorTable'.cells[c][io'.rown])]
             /\ Failed' => /\ SubSeq(exc'.message, 1, 1) # NUL
                           /\ Cursor' = heap.objs[io'.arg.obj]
             /\ CursorTable' = heap.objs[BoundTable(io'.arg.obj)]
       /\ (last'.fn = "table_row_get_cell_string" /\ Succeeded')
          => /\ Cursor' = heap.objs[io'.arg.obj]
             /\ io'.out.cb = <<SB(Cursor'.fields[io'.name].v.data[1])>>
       /\ (last'.fn = "table_row_get_cell" /\ Succeeded')
          => /\ Cursor' = heap.objs[io'.arg.obj]
             /\ io'.out.data = Cursor'.fields[io'.name].v.data
       /\ (last.fn = "table_row_read" /\ Succeeded
           /\ last'.fn = "table_row_get_cell_string" /\ io'.arg = io.arg
           /\ Cursor.fields["COL"].type = "TpString")
          => /\ Succeeded'
             /\ io'.out.cb = <<SB(CursorTable.cells["COL"][io.rown].data[1])>>]_vars

\* the second row was read into a cursor that held the first: its array is
\* gone from the record
C20_Witness ==
    /\ last.fn = "table_row_read"
    /\ Succeeded
    /\ io.arg = Handle(SrcRow)
    /\ io.rown = RowRows - 1
    /\ CursorTable.cols["COL"].array
    /\ CursorTable.cells["COL"][0].def
    /\ Cursor.fields["COL"].v = Undefined

(***************************************************************************)
(* SpecRec: the records of a host.  It makes records, copies them, puts    *)
(* fields into them, compares them and frees them.  heap.objs[a] is the    *)
(* TableRecord at address a; no address is used twice.                     *)
(***************************************************************************)
\* the records a host makes
MaxRecs == 2

\* TableRecord(const TableRecord& other): the fields of other, by value
TableRecord_copy(other) == [live |-> TRUE, fields |-> other.fields]

\* rec.description(): the fields' names and types
description(r) == [n \in DOMAIN r.fields |-> r.fields[n].type]

\* (a tablerec_copy that hands back its argument)
tablerec_copy_same(h, other) == [heap |-> h, ptr |-> other]

\* return new GlueTableRecord(other)
tablerec_copy(h, other) ==
    [heap |-> [h EXCEPT !.objs = Append(@, TableRecord_copy(h.objs[other]))],
     ptr |-> Len(h.objs) + 1]

\* (a comparison of the records, values included)
tablerec_eq_values(r, other) == r.fields = other.fields

\* return rec.description() == other.description()
tablerec_eq(r, other) == description(r) = description(other)

\* delete rec
tablerec_free(h, a) == [h EXCEPT !.objs[a] = NoRecord]

LiveRecs == {a \in 1..Len(heap.objs) : heap.objs[a].live}

\* what a host puts: two integers and a string into A, an integer into B
RecPuts ==
    {<<"A", Arg("TpInt", <<>>, <<ZeroOf("Int")>>)>>,
     <<"A", Arg("TpInt", <<>>, <<[i \in 1..4 |-> 255]>>)>>,
     <<"B", Arg("TpInt", <<>>, <<ZeroOf("Int")>>)>>}
        \cup {<<"A", Arg("TpArrayInt", <<2>>, HostElems("Int", 2))>>}

\* the call is over, with the heap h
RecFinish(fn, e, h, arg, dest, ptr, name) ==
    /\ Finish(fn, e, [NoIO EXCEPT !.arg = arg, !.dest = dest, !.ptr = ptr,
                                  !.name = name])
    /\ heap' = h
    /\ UNCHANGED <<table, rec, row, host>>

Rec_tablerec_create ==
    /\ Len(heap.objs) < MaxRecs
    /\ \/ RecFinish("tablerec_create", NoExc,
                    [heap EXCEPT !.objs = Append(@, tablerec_create)],
                    NullPtr, NullPtr, Handle(Len(heap.objs) + 1), "")
       \/ \E e \in Faults :
            RecFinish("tablerec_create", e, heap, NullPtr, NullPtr, NullPtr, "")

Rec_tablerec_copy ==
    /\ Len(heap.objs) < MaxRecs
    /\ \E other \in LiveRecs :
         \/ LET r == tablerec_copy(heap, other)
            IN  RecFinish("tablerec_copy", NoExc, r.heap, Handle(other), NullPtr,
                          Handle(r.ptr), "")
         \/ \E e \in Faults :
              RecFinish("tablerec_copy", e, heap, Handle(other), NullPtr,
                        NullPtr, "")

Rec_tablerec_put_field ==
    \E a \in LiveRecs, p \in RecPuts :
        LET r == tablerec_put_field(heap.objs[a], SB(p[1]), p[2].data_type,
                                    p[2].n_dims, p[2].dims, p[2].data)
        IN  RecFinish("tablerec_put_field", r.e,
                      [heap EXCEPT !.objs[a] = r.rec], Handle(a), NullPtr,
                      NullPtr, p[1])

\* tablerec_eq has no ExcInfo and returns a bool
Rec_tablerec_eq ==
    \E a \in LiveRecs, b \in LiveRecs :
        /\ last' = [fn |-> "tablerec_eq", site |-> "none", e |-> NoExc,
                    escaped |-> FALSE, returns |-> "value",
                    ret |-> IF tablerec_eq(heap.objs[a], heap.objs[b]) THEN 1 ELSE 0]
        /\ io' = [NoIO EXCEPT !.arg = Handle(a), !.dest = Handle(b)]
        /\ UNCHANGED <<table, rec, row, host, exc, heap>>

Rec_tablerec_free ==
    \E a \in LiveRecs :
        \/ RecFinish("tablerec_free", NoExc, tablerec_free(heap, a), Handle(a),
                     NullPtr, NullPtr, "")
        \/ \E e \in Faults :
             RecFinish("tablerec_free", e, tablerec_free(heap, a), Handle(a),
                       NullPtr, NullPtr, "")

InitRec ==
    /\ table = NoTable
    /\ rec = NoRecord
    /\ row = NoRow
    /\ host = NoPut
    /\ heap = NoHeap
    /\ exc = [message |-> Zeroed]
    /\ last = [fn |-> "none", site |-> "none", e |-> NoExc, escaped |-> FALSE,
               returns |-> "none", ret |-> 0]
    /\ io = NoIO

NextRec ==
    \/ Rec_tablerec_create
    \/ Rec_tablerec_copy
    \/ Rec_tablerec_put_field
    \/ Rec_tablerec_eq
    \/ Rec_tablerec_free

SpecRec == InitRec /\ [][NextRec]_vars

(***************************************************************************)
(* Properties of the records (SpecRec).                                    *)
(***************************************************************************)
\* the records at the addresses the last call took
ArgRec == heap.objs[io.arg.obj]

DestRec == heap.objs[io.dest.obj]

\* C21: tablerec_copy returns an independent record: the copy is a new
\* object, right after the copy tablerec_eq(source, copy) is true and the
\* source is as it was, and a tablerec_put_field or tablerec_free on one
\* record changes no other record, copy or source
C21_CopyIsIndependent ==
    [][ /\ (last'.fn = "tablerec_copy" /\ last'.ret # NULL)
            => /\ io'.ptr.obj \notin 1..Len(heap.objs)
               /\ tablerec_eq(heap'.objs[io'.arg.obj], heap'.objs[io'.ptr.obj])
               /\ heap'.objs[io'.ptr.obj].live
               /\ heap'.objs[io'.arg.obj] = heap.objs[io'.arg.obj]
        /\ last'.fn \in {"tablerec_put_field", "tablerec_free"}
            => \A b \in (1..Len(heap.objs)) \ {io'.arg.obj} :
                   heap'.objs[b] = heap.objs[b] ]_vars

\* a copy of a record that holds the fields A and B has been made
C21_Witness ==
    /\ last.fn = "tablerec_copy" /\ last.ret # NULL
    /\ io.ptr.obj # io.arg.obj
    /\ DOMAIN ArgRec.fields = {"A", "B"}
    /\ heap.objs[io.ptr.obj].fields = ArgRec.fields

SameNamesAndTypes(r, other) ==
    /\ DOMAIN r.fields = DOMAIN other.fields
    /\ \A n \in DOMAIN r.fields : r.fields[n].type = other.fields[n].type

\* C22: tablerec_eq(a, b) is true if and only if the two records have the
\* same field names and types, whatever the values of the fields, and a
\* tablerec_put_field that defines a new field in one of two equal records
\* makes them unequal
C22_EqIsOfDescriptions ==
    [][ /\ last'.fn = "tablerec_eq"
            => ((last'.ret = 1)
                  <=> SameNamesAndTypes(heap'.objs[io'.arg.obj],
                                        heap'.objs[io'.dest.obj]))
        /\ (/\ last'.fn = "tablerec_put_field" /\ last'.ret = 0
            /\ ~HasField(heap.objs[io'.arg.obj], io'.name))
            => \A b \in LiveRecs \ {io'.arg.obj} :
                   tablerec_eq(heap.objs[io'.arg.obj], heap.objs[b])
                       => ~tablerec_eq(heap'.objs[io'.arg.obj], heap'.objs[b]) ]_vars

\* two records of the same names and types and of other values compared equal
C22_Witness ==
    /\ last.fn = "tablerec_eq" /\ last.ret = 1
    /\ io.arg.obj # io.dest.obj
    /\ HasField(ArgRec, "A")
    /\ ArgRec.fields # DestRec.fields

(***************************************************************************)
(* SpecFile: the tables on disk.  A host makes table descriptions,         *)
(* creates tables at a path, opens the tables at a path and closes them.   *)
(* heap.disk[path] is the table at the path: whether there is one, the     *)
(* address of the handle that created it (0: it was there at the start)    *)
(* and its rows.  heap.objs[a] is the object at address a.                 *)
(***************************************************************************)
\* the objects a host makes
MaxFiles == 3

Paths == {"old.tab", "new.tab"}

NoFile == [exists |-> FALSE, made |-> 0, nrow |-> 0]

\* (a switch (mode) whose NewNoReplace case falls into New)
table_create_option_replacing(mode) ==
    CASE mode \in {"TCM_NEW", "TCM_NEW_NO_REPLACE"} -> "New"
      [] mode = "TCM_SCRATCH" -> "Scratch"
      [] OTHER -> "invalid"

\* switch (mode) of table_create: the TableOption of the mode
table_create_option(mode) ==
    CASE mode = "TCM_NEW" -> "New"
      [] mode = "TCM_NEW_NO_REPLACE" -> "NewNoReplace"
      [] mode = "TCM_SCRATCH" -> "Scratch"
      [] OTHER -> "invalid"

\* option = Old; if (mode == TOM_OPEN_RW) ... else if (mode == TOM_CREATE) ...
table_alloc_and_open_option(mode) ==
    IF mode = "TOM_OPEN_RW" THEN "Update"
    ELSE IF mode = "TOM_CREATE" THEN "NewNoReplace"
    ELSE "Old"

TableExists(path) == Native("table " \o path \o " already exists")

TableDoesNotExist(path) == Native("table " \o path \o " does not exist")

\* SetupNewTable(path, desc, option): NewNoReplace refuses a path that has
\* a table
SetupNewTable(h, path, option) ==
    IF option = "NewNoReplace" /\ h.disk[path].exists THEN TableExists(path)
    ELSE NoExc

FileObj(kind, path, option) ==
    [kind |-> kind, state |-> "live", path |-> path, option |-> option]

\* Table(newTable, ...): the table is on disk, in place of the one that was
Table_create(h, path, n_rows, option) ==
    [objs |-> Append(h.objs, FileObj("table", path, option)),
     disk |-> [h.disk EXCEPT ![path] =
                  [exists |-> TRUE, made |-> Len(h.objs) + 1, nrow |-> n_rows]]]

\* Table(path, option): the table at the path is opened; with Old and
\* Update there must be one, with NewNoReplace there must be none
Table_open(h, path, option) ==
    IF option = "NewNoReplace"
    THEN IF h.disk[path].exists THEN [e |-> TableExists(path), heap |-> h]
         ELSE [e |-> NoExc, heap |-> Table_create(h, path, 0, option)]
    ELSE IF h.disk[path].exists
    THEN [e |-> NoExc,
          heap |-> [h EXCEPT !.objs = Append(@, FileObj("table", path, option))]]
    ELSE [e |-> TableDoesNotExist(path), heap |-> h]

\* ~Table(): a Scratch table leaves the disk with its handle
Table_close(h, a) ==
    [objs |-> [h.objs EXCEPT ![a].state = "freed"],
     disk |-> IF /\ h.objs[a].option = "Scratch"
                 /\ h.disk[h.objs[a].path].made = a
              THEN [h.disk EXCEPT ![h.objs[a].path] = NoFile]
              ELSE h.disk]

table_create_at(h, path, n_rows, mode) ==
    LET option == table_create_option(mode)
    IN  IF option = "invalid"
        THEN [e |-> StdExc("invalid TableCreateMode"), heap |-> h]
        ELSE IF Raises(SetupNewTable(h, path, option))
        THEN [e |-> SetupNewTable(h, path, option), heap |-> h]
        ELSE [e |-> NoExc, heap |-> Table_create(h, path, n_rows, option)]

table_alloc_and_open_at(h, path, mode) ==
    Table_open(h, path, table_alloc_and_open_option(mode))

LiveFiles(kind) ==
    {a \in 1..Len(heap.objs) :
        heap.objs[a].kind = kind /\ heap.objs[a].state = "live"}

\* the call is over, with the heap h; an allocator that did not raise
\* returns the object it made, the last one
FileFinish(fn, e, h, mode, path, n_rows, arg) ==
    /\ Finish(fn, e,
           [NoIO EXCEPT !.mode = mode, !.name = path, !.rown = n_rows,
                        !.arg = arg,
                        !.ptr = IF Raises(e) \/ Len(h.objs) = Len(heap.objs)
                                THEN NullPtr ELSE Handle(Len(h.objs))])
    /\ heap' = h
    /\ UNCHANGED <<table, rec, row, host>>

File_tabledesc_create ==
    /\ Len(heap.objs) < MaxFiles
    /\ LiveFiles("desc") = {}
    /\ \E mode \in TableDescCreateModes \cup {NoMode} :
         LET e == tabledesc_create_mode(mode)
         IN  FileFinish("tabledesc_create", e,
                 IF Raises(e) THEN heap
                 ELSE [heap EXCEPT !.objs = Append(@, FileObj("desc", "", mode))],
                 mode, "", 0, NullPtr)

File_table_create ==
    /\ Len(heap.objs) < MaxFiles
    /\ \E path \in Paths, desc \in LiveFiles("desc"), n_rows \in {0, 1},
          mode \in TableCreateModes \cup {NoMode} :
         LET r == table_create_at(heap, path, n_rows, mode)
         IN  FileFinish("table_create", r.e, r.heap, mode, path, n_rows,
                        Handle(desc))

File_table_alloc_and_open ==
    /\ Len(heap.objs) < MaxFiles
    /\ \E path \in Paths, mode \in TableOpenModes \cup {NoMode} :
         LET r == table_alloc_and_open_at(heap, path, mode)
         IN  FileFinish("table_alloc_and_open", r.e, r.heap, mode, path, 0,
                        NullPtr)

File_table_close_and_free ==
    \E a \in LiveFiles("table") :
        FileFinish("table_close_and_free", NoExc, Table_close(heap, a), "",
                   heap.objs[a].path, 0, Handle(a))

InitFile ==
    /\ table = NoTable
    /\ rec = NoRecord
    /\ row = NoRow
    /\ host = NoPut
    /\ heap = [objs |-> <<>>,
               disk |-> [p \in Paths |->
                           IF p = "old.tab"
                           THEN [exists |-> TRUE, made |-> 0, nrow |-> 1]
                           ELSE NoFile]]
    /\ exc = [message |-> Zeroed]
    /\ last = [fn |-> "none", site |-> "none", e |-> NoExc, escaped |-> FALSE,
               returns |-> "none", ret |-> 0]
    /\ io = NoIO

NextFile ==
    \/ File_tabledesc_create
    \/ File_table_create
    \/ File_table_alloc_and_open
    \/ File_table_close_and_free

SpecFile == InitFile /\ [][NextFile]_vars

(***************************************************************************)
(* Properties of the tables on disk (SpecFile).                            *)
(***************************************************************************)
\* the last call asked for a table that must not exist yet
MustNotExist ==
    \/ last.fn = "table_create" /\ io.mode = "TCM_NEW_NO_REPLACE"
    \/ last.fn = "table_alloc_and_open" /\ io.mode = "TOM_CREATE"

\* C23: table_create with TCM_NEW_NO_REPLACE and table_alloc_and_open with
\* TOM_CREATE on a path where a table exists return NULL with an error and
\* leave the table and the handles as they were; table_create with TCM_NEW
\* on such a path returns a live handle of a table it put at the path
C23_MustNotExistRefused ==
    [][ /\ (MustNotExist' /\ heap.disk[io'.name].exists)
            => /\ last'.ret = NULL
               /\ SubSeq(exc'.message, 1, 1) # NUL
               /\ heap' = heap
        /\ (/\ last'.fn = "table_create" /\ io'.mode = "TCM_NEW"
            /\ heap.disk[io'.name].exists)
            => /\ last'.ret # NULL
               /\ heap'.objs[io'.ptr.obj].state = "live"
               /\ heap'.objs[io'.ptr.obj].path = io'.name
               /\ heap'.disk[io'.name].made = io'.ptr.obj ]_vars

\* a table a host created and closed is at the path, of one row, and the
\* table_create that must not replace it has failed
C23_Witness ==
    /\ last.fn = "table_create" /\ io.mode = "TCM_NEW_NO_REPLACE"
    /\ last.ret = NULL
    /\ io.name = "new.tab"
    /\ heap.disk[io.name].exists
    /\ heap.disk[io.name].nrow = 1
    /\ LiveFiles("table") = {}

\* the last call was an allocator given a mode that its enumeration lacks
OutsideEnumeration ==
    \/ last.fn = "tabledesc_create" /\ io.mode \notin TableDescCreateModes
    \/ last.fn = "table_create" /\ io.mode \notin TableCreateModes
    \/ last.fn = "table_alloc_and_open" /\ io.mode \notin TableOpenModes

\* C28: tabledesc_create, table_create and table_alloc_and_open given a
\* mode outside their enumeration return NULL with an error message, and
\* neither make a handle nor open or create a table
C28_InvalidModeRejected ==
    [][ OutsideEnumeration'
            => /\ last'.ret = NULL
               /\ SubSeq(exc'.message, 1, 1) # NUL
               /\ heap' = heap ]_vars

(***************************************************************************)
(* Properties of the results of a failed call (Spec, SpecRead).            *)
(***************************************************************************)
\* C24: no call delivers a partial result: a call that returns its failure
\* sentinel has written none of its out-parameters (data_type, n_dim, dims,
\* n_rows, the data buffer) and has not invoked its callback
C24_NoPartialResult ==
    Failed => /\ io.out.wrote = {}
              /\ io.out.cb = <<>>

(***************************************************************************)
(* Declaring columns.  A column of a description or of a table is a        *)
(* ColumnDesc with its options, a subset of {"Direct", "Undefined",        *)
(* "FixedShape"}.  The comment of a column is left out.                    *)
(***************************************************************************)
\* the CASE(DTYPE, CPPTYPE) lines of the six column-adding functions
add_column_CASE ==
    {"TpBool", "TpChar", "TpUChar", "TpShort", "TpUShort", "TpInt", "TpUInt",
     "TpFloat", "TpDouble", "TpComplex", "TpDComplex", "TpString"}

\* if (direct) opt |= ColumnDesc::Direct; if (undefined) opt |= ColumnDesc::Undefined
ColumnOptions(opt, direct, undefined) ==
    opt \cup (IF direct THEN {"Direct"} ELSE {})
        \cup (IF undefined THEN {"Undefined"} ELSE {})

\* ScalarColumnDesc<T>(name, comment, opt)
ScalarColumnDesc(tag, opt) ==
    [elem |-> tag, array |-> FALSE, fixed |-> FALSE, shape |-> <<>>, ndim |-> 0,
     opt |-> opt]

\* ArrayColumnDesc<T>(name, comment, ndim, opt) and (name, comment, shape, opt)
ArrayColumnDesc(tag, ndim, shape, opt) ==
    [elem |-> tag, array |-> TRUE, fixed |-> "FixedShape" \in opt, shape |-> shape,
     ndim |-> IF shape # <<>> THEN Len(shape) ELSE ndim, opt |-> opt]

ColumnExists(name) == Native("column " \o name \o " already exists")

\* TableDesc::addColumn: a description takes any column of a new name
TableDesc_addColumn(d, name, col) ==
    IF name \in DOMAIN d.cols THEN [e |-> ColumnExists(name), desc |-> d]
    ELSE [e |-> NoExc,
          desc |-> [d EXCEPT !.cols = [n \in DOMAIN d.cols \cup {name} |->
                                          IF n = name THEN col ELSE d.cols[n]]]]

\* the storage of the columns col in a table of nrow rows
NewTable(cols, nrow) ==
    [live |-> TRUE, cols |-> cols, nrow |-> nrow,
     cells |-> [c \in DOMAIN cols |-> [r \in 0..(nrow - 1) |-> DefaultCell(cols[c])]]]

\* Table::addColumn: a table takes any column of a new name, with either
\* modifier, and gives it its storage
Table_addColumn(t, name, col) ==
    IF name \in DOMAIN t.cols THEN [e |-> ColumnExists(name), table |-> t]
    ELSE [e |-> NoExc,
          table |-> NewTable([n \in DOMAIN t.cols \cup {name} |->
                                 IF n = name THEN col ELSE t.cols[n]], t.nrow)]

\* ColumnDesc::setNdim: the dimensionality of an array column of no shape
setNdim(col, n_dims) ==
    IF col.array /\ col.shape = <<>>
    THEN [e |-> NoExc, col |-> [col EXCEPT !.ndim = n_dims]]
    ELSE [e |-> Native("setNdim: the column has a shape or holds scalars"),
          col |-> col]

UnhandledScalarColumn == RuntimeError("unhandled scalar column data type")

UnhandledArrayColumn == RuntimeError("unhandled array column data type")

DirectNeedsShape ==
    RuntimeError("array columns with the direct option must have a fixed shape.")

tabledesc_add_scalar_column(table_desc, data_type, col_name, direct, undefined) ==
    LET opt == ColumnOptions({}, direct, undefined)
    IN  IF data_type \in add_column_CASE
        THEN TableDesc_addColumn(table_desc, bridge_string(col_name),
                                 ScalarColumnDesc(data_type, opt))
        ELSE [e |-> UnhandledScalarColumn, desc |-> table_desc]

tabledesc_add_array_column(table_desc, data_type, col_name, direct, undefined) ==
    IF direct THEN [e |-> DirectNeedsShape, desc |-> table_desc]
    ELSE LET opt == ColumnOptions({}, FALSE, undefined)
         IN  IF data_type \in add_column_CASE
             THEN TableDesc_addColumn(table_desc, bridge_string(col_name),
                                      ArrayColumnDesc(data_type, -1, <<>>, opt))
             ELSE [e |-> UnhandledArrayColumn, desc |-> table_desc]

\* (the function with shape[i] = dims[i])
tabledesc_add_fixed_array_column_same(table_desc, data_type, col_name, n_dims, dims, direct, undefined) ==
    LET opt == ColumnOptions({"FixedShape"}, direct, undefined)
        shape == IPositionSame(n_dims, dims)
    IN  IF data_type \in add_column_CASE
        THEN TableDesc_addColumn(table_desc, bridge_string(col_name),
                                 ArrayColumnDesc(data_type, -1, shape, opt))
        ELSE [e |-> UnhandledArrayColumn, desc |-> table_desc]

tabledesc_add_fixed_array_column(table_desc, data_type, col_name, n_dims, dims, direct, undefined) ==
    LET opt == ColumnOptions({"FixedShape"}, direct, undefined)
        shape == IPositionFrom(n_dims, dims)
    IN  IF data_type \in add_column_CASE
        THEN TableDesc_addColumn(table_desc, bridge_string(col_name),
                                 ArrayColumnDesc(data_type, -1, shape, opt))
        ELSE [e |-> UnhandledArrayColumn, desc |-> table_desc]

tabledesc_set_ndims(table_desc, col_name, n_dims) ==
    LET c == bridge_string(col_name)
    IN  IF c \notin DOMAIN table_desc.cols
        THEN [e |-> Native("Table column " \o c \o " is unknown"), desc |-> table_desc]
        ELSE [e |-> setNdim(table_desc.cols[c], n_dims).e,
              desc |-> [table_desc EXCEPT
                           !.cols[c] = setNdim(table_desc.cols[c], n_dims).col]]

table_add_scalar_column(t, data_type, col_name, direct, undefined) ==
    LET opt == ColumnOptions({}, direct, undefined)
    IN  IF data_type \in add_column_CASE
        THEN Table_addColumn(t, bridge_string(col_name),
                             ScalarColumnDesc(data_type, opt))
        ELSE [e |-> UnhandledScalarColumn, table |-> t]

table_add_array_column(t, data_type, col_name, direct, undefined) ==
    LET opt == ColumnOptions({}, direct, undefined)
    IN  IF data_type \in add_column_CASE
        THEN Table_addColumn(t, bridge_string(col_name),
                             ArrayColumnDesc(data_type, -1, <<>>, opt))
        ELSE [e |-> UnhandledArrayColumn, table |-> t]

\* its default arm raises the message of the scalar columns
table_add_fixed_array_column(t, data_type, col_name, n_dims, dims, direct, undefined) ==
    LET opt == ColumnOptions({"FixedShape"}, direct, undefined)
        shape == IPositionFrom(n_dims, dims)
    IN  IF data_type \in add_column_CASE
        THEN Table_addColumn(t, bridge_string(col_name),
                             ArrayColumnDesc(data_type, -1, shape, opt))
        ELSE [e |-> UnhandledScalarColumn, table |-> t]

\* table_create: SetupNewTable(path, table_desc, option), then
\* new Table(newTable, Plain, n_rows, ...)
table_create(table_desc, n_rows) == NewTable(table_desc.cols, n_rows)

(***************************************************************************)
(* SpecDesc: declaring columns and what comes of it.  A host has either a  *)
(* record or a table description (heap.objs[1]) and the table it creates   *)
(* from it.  It adds the column COL to the description, sets the           *)
(* dimensionality of the column and creates the table, or creates the      *)
(* table and adds the column to it; it puts arrays into the cell, or into  *)
(* a field of the record, and asks what the column, the cell and the       *)
(* field hold.                                                             *)
(***************************************************************************)
Desc == heap.objs[1]

\* the tags a host declares a column with: one with a CASE line, one without
AddTags == {"TpInt", "TpInt64"}

\* the host shapes of the fixed columns and of the arrays put
FixedDims == {HostShape(3), HostShape(MaxRank)}

\* the dimensionalities a host sets
SetNdims == {3, MaxRank}

HasDesc == Len(heap.objs) = 1

\* the call on the description or on the table is over
DescFinish(fn, e, d, t, newio) ==
    /\ Finish(fn, e, newio)
    /\ heap' = [heap EXCEPT !.objs[1] = d]
    /\ table' = t
    /\ UNCHANGED <<rec, row, host>>

\* the call on the record is over
FieldFinish(fn, e, r, newio) ==
    /\ Finish(fn, e, newio)
    /\ rec' = r
    /\ UNCHANGED <<table, row, host, heap>>

Declared(data_type, dims, direct, undefined) ==
    [NoIO EXCEPT !.name = "COL", !.data_type = data_type, !.n_dims = Len(dims),
                 !.dims = dims, !.direct = direct, !.undefined = undefined]

Desc_tabledesc_add_scalar_column ==
    /\ HasDesc /\ ~table.live
    /\ \E data_type \in AddTags, direct \in BOOLEAN, undefined \in BOOLEAN :
        LET r == tabledesc_add_scalar_column(Desc, data_type, SB("COL"), direct,
                                             undefined)
        IN  DescFinish("tabledesc_add_scalar_column", r.e, r.desc, table,
                       Declared(data_type, <<>>, direct, undefined))

Desc_tabledesc_add_array_column ==
    /\ HasDesc /\ ~table.live
    /\ \E data_type \in AddTags, direct \in BOOLEAN, undefined \in BOOLEAN :
        LET r == tabledesc_add_array_column(Desc, data_type, SB("COL"), direct,
                                            undefined)
        IN  DescFinish("tabledesc_add_array_column", r.e, r.desc, table,
                       Declared(data_type, <<>>, direct, undefined))

Desc_tabledesc_add_fixed_array_column ==
    /\ HasDesc /\ ~table.live
    /\ \E data_type \in AddTags, dims \in FixedDims, direct \in BOOLEAN,
       undefined \in BOOLEAN :
        LET r == tabledesc_add_fixed_array_column(Desc, data_type, SB("COL"),
                                                  Len(dims), dims, direct, undefined)
        IN  DescFinish("tabledesc_add_fixed_array_column", r.e, r.desc, table,
                       Declared(data_type, dims, direct, undefined))

Desc_tabledesc_set_ndims ==
    /\ HasDesc /\ ~table.live
    /\ \E n_dims \in SetNdims :
        LET r == tabledesc_set_ndims(Desc, SB("COL"), n_dims)
        IN  DescFinish("tabledesc_set_ndims", r.e, r.desc, table,
                       [NoIO EXCEPT !.name = "COL", !.n_dims = n_dims])

Desc_table_create ==
    /\ HasDesc /\ ~table.live
    /\ DescFinish("table_create", NoExc, Desc, table_create(Desc, NRows),
                  [NoIO EXCEPT !.mode = "TCM_NEW", !.arg = Handle(1)])

Desc_table_add_scalar_column ==
    /\ table.live
    /\ \E data_type \in AddTags, direct \in BOOLEAN, undefined \in BOOLEAN :
         LET r == table_add_scalar_column(table, data_type, SB("COL"), direct,
                                          undefined)
         IN  DescFinish("table_add_scalar_column", r.e, Desc, r.table,
                        Declared(data_type, <<>>, direct, undefined))

Desc_table_add_array_column ==
    /\ table.live
    /\ \E data_type \in AddTags, direct \in BOOLEAN, undefined \in BOOLEAN :
         LET r == table_add_array_column(table, data_type, SB("COL"), direct,
                                         undefined)
         IN  DescFinish("table_add_array_column", r.e, Desc, r.table,
                        Declared(data_type, <<>>, direct, undefined))

Desc_table_add_fixed_array_column ==
    /\ table.live
    /\ \E data_type \in AddTags, dims \in FixedDims, direct \in BOOLEAN,
          undefined \in BOOLEAN :
         LET r == table_add_fixed_array_column(table, data_type, SB("COL"),
                                               Len(dims), dims, direct, undefined)
         IN  DescFinish("table_add_fixed_array_column", r.e, Desc, r.table,
                        Declared(data_type, dims, direct, undefined))

\* the arrays a host puts: of the tag of the column
PutArrays == {Arg("TpArrayInt", d, HostElems("Int", Product(d))) : d \in FixedDims}

Desc_table_put_cell ==
    /\ table.live
    /\ \E a \in PutArrays :
         LET r == table_put_cell(table, SB("COL"), 0, a.data_type, a.n_dims,
                                 a.dims, a.data)
         IN  DescFinish("table_put_cell", r.e, Desc, r.table,
                        [NoIO EXCEPT !.name = "COL", !.data_type = a.data_type,
                                     !.n_dims = a.n_dims, !.dims = a.dims,
                                     !.tag = a.data_type])

Desc_tablerec_put_field ==
    /\ rec.live
    /\ \E a \in PutArrays :
         LET r == tablerec_put_field(rec, SB("A"), a.data_type, a.n_dims, a.dims,
                                     a.data)
         IN  FieldFinish("tablerec_put_field", r.e, r.rec,
                         [NoIO EXCEPT !.name = "A", !.data_type = a.data_type,
                                      !.n_dims = a.n_dims, !.dims = a.dims,
                                      !.tag = a.data_type])

DescRead(fn, name, r) ==
    DescFinish(fn, r.e, Desc, table, [NoIO EXCEPT !.name = name, !.out = r.out])

Desc_table_get_column_info ==
    /\ table.live
    /\ DescRead("table_get_column_info", "COL", table_get_column_info(table, SB("COL")))

Desc_table_get_cell_info ==
    /\ table.live
    /\ DescRead("table_get_cell_info", "COL", table_get_cell_info(table, SB("COL"), 0))

Desc_tablerec_get_field_info ==
    /\ rec.live
    /\ LET r == tablerec_get_field_info(rec, SB("A"))
       IN  FieldFinish("tablerec_get_field_info", r.e, rec,
                       [NoIO EXCEPT !.name = "A", !.out = r.out])

InitDesc ==
    /\ table = NoTable
    /\ row = NoRow
    /\ host = NoPut
    /\ \/ rec = tablerec_create /\ heap = NoHeap
       \/ rec = NoRecord /\ heap = [objs |-> << [kind |-> "desc", cols |-> <<>>] >>]
    /\ exc = [message |-> Zeroed]
    /\ last = [fn |-> "none", site |-> "none", e |-> NoExc, escaped |-> FALSE,
               returns |-> "none", ret |-> 0]
    /\ io = NoIO

NextDesc ==
    \/ Desc_tabledesc_add_scalar_column
    \/ Desc_tabledesc_add_array_column
    \/ Desc_tabledesc_add_fixed_array_column
    \/ Desc_tabledesc_set_ndims
    \/ Desc_table_create
    \/ Desc_table_add_scalar_column
    \/ Desc_table_add_array_column
    \/ Desc_table_add_fixed_array_column
    \/ Desc_table_put_cell
    \/ Desc_tablerec_put_field
    \/ Desc_table_get_column_info
    \/ Desc_table_get_cell_info
    \/ Desc_tablerec_get_field_info

SpecDesc == InitDesc /\ [][NextDesc]_vars

(***************************************************************************)
(* Properties of the declared columns (SpecDesc).                          *)
(***************************************************************************)
\* native[i] = host[n - 1 - i] for the n axes of both
Mirrored(native, hostdims) ==
    /\ Len(native) = Len(hostdims)
    /\ \A i \in 0..(Len(native) - 1) : native[i + 1] = hostdims[Len(hostdims) - i]

\* the stores into dims[] put native[i] at n - 1 - i, for the n axes of native
Reported(native, stores) ==
    \A i \in 0..(Len(native) - 1) : <<Len(native) - 1 - i, native[i + 1]>> \in stores

\* C25: a host shape that enters the native side (table_put_cell,
\* tablerec_put_field, tabledesc_add_fixed_array_column,
\* table_add_fixed_array_column) is stored with the same rank n and
\* native[i] = host[n-1-i]; a native shape that leaves (table_get_column_info,
\* table_get_cell_info, tablerec_get_field_info) is reported with
\* host[n-1-i] = native[i]
C25_EveryCrossingReverses ==
    Succeeded =>
        /\ last.fn = "table_put_cell"
              => Mirrored(table.cells["COL"][0].shape, io.dims)
        /\ last.fn = "tablerec_put_field"
              => Mirrored(rec.fields["A"].v.shape, io.dims)
        /\ last.fn = "tabledesc_add_fixed_array_column"
              => Mirrored(Desc.cols["COL"].shape, io.dims)
        /\ last.fn = "table_add_fixed_array_column"
              => Mirrored(table.cols["COL"].shape, io.dims)
        /\ last.fn = "table_get_column_info"
              => Reported(table.cols["COL"].shape, io.out.dims)
        /\ last.fn = "table_get_cell_info"
              => /\ Reported(table.cells["COL"][0].shape, io.out.dims)
                 /\ io.out.n_dim = Len(table.cells["COL"][0].shape)
        /\ last.fn = "tablerec_get_field_info"
              => /\ Reported(rec.fields["A"].v.shape, io.out.dims)
                 /\ io.out.n_dim = Len(rec.fields["A"].v.shape)

\* the column was declared with the host shape (3, 2, 1), the table was
\* created and table_get_column_info reports (3, 2, 1)
C25_Witness ==
    /\ last.fn = "table_get_column_info" /\ Succeeded
    /\ Desc.cols["COL"].shape = <<1, 2, 3>>
    /\ table.cols["COL"].shape = <<1, 2, 3>>
    /\ io.out.n_dim = 3
    /\ io.out.dims = {<<0, 3>>, <<1, 2>>, <<2, 1>>}

\* C26: table_get_column_info, on success, writes only dims[0..n_dim-1] with
\* n_dim <= 8 and reads only axes the declared shape of the column has; a
\* column of no declared dimensionality reports n_dim = -1 and leaves dims
\* unwritten
C26_ColumnInfoInBounds ==
    (last.fn = "table_get_column_info" /\ Succeeded)
        => /\ io.out.n_dim <= MaxDims
           /\ \A d \in io.out.dims : d[1] \in 0..(MaxDims - 1)
           /\ io.out.n_dim <= Len(table.cols["COL"].shape)
           /\ table.cols["COL"].ndim = -1
                 => io.out.n_dim = -1 /\ "dims" \notin io.out.wrote

\* a description of the columns of the table t
DescOf(t) == [kind |-> "desc", cols |-> t.cols]

\* the two calls end alike: both fail, or both succeed with the same columns
SameOutcome(e, cols, ret, newcols) ==
    /\ Raises(e) <=> ret = 1
    /\ ~Raises(e) => cols = newcols

\* C27: the table-level and the descriptor-level column-adding entry points
\* are equivalent: with the same data_type, name, shape and (direct,
\* undefined) flags, on the same columns, tabledesc_add_X_column and
\* table_add_X_column both succeed or both fail, and on success add the same
\* column with the same options; a variable-shape array column with direct
\* set is rejected by both
C27_AddColumnAlike ==
    [][ /\ last'.fn = "tabledesc_add_scalar_column"
            => LET r == table_add_scalar_column(table_create(Desc, NRows),
                            io'.data_type, SB(io'.name), io'.direct, io'.undefined)
               IN  SameOutcome(r.e, r.table.cols, last'.ret, Desc'.cols)
        /\ last'.fn = "tabledesc_add_array_column"
            => LET r == table_add_array_column(table_create(Desc, NRows),
                            io'.data_type, SB(io'.name), io'.direct, io'.undefined)
               IN  /\ SameOutcome(r.e, r.table.cols, last'.ret, Desc'.cols)
                   /\ io'.direct => last'.ret = 1
        /\ last'.fn = "tabledesc_add_fixed_array_column"
            => LET r == table_add_fixed_array_column(table_create(Desc, NRows),
                            io'.data_type, SB(io'.name), io'.n_dims, io'.dims,
                            io'.direct, io'.undefined)
               IN  SameOutcome(r.e, r.table.cols, last'.ret, Desc'.cols)
        /\ last'.fn = "table_add_scalar_column"
            => LET r == tabledesc_add_scalar_column(DescOf(table),
                            io'.data_type, SB(io'.name), io'.direct, io'.undefined)
               IN  SameOutcome(r.e, r.desc.cols, last'.ret, table'.cols)
        /\ last'.fn = "table_add_array_column"
            => LET r == tabledesc_add_array_column(DescOf(table),
                            io'.data_type, SB(io'.name), io'.direct, io'.undefined)
               IN  /\ SameOutcome(r.e, r.desc.cols, last'.ret, table'.cols)
                   /\ io'.direct => last'.ret = 1
        /\ last'.fn = "table_add_fixed_array_column"
            => LET r == tabledesc_add_fixed_array_column(DescOf(table),
                            io'.data_type, SB(io'.name), io'.n_dims, io'.dims,
                            io'.direct, io'.undefined)
               IN  SameOutcome(r.e, r.desc.cols, last'.ret, table'.cols) ]_vars

(***************************************************************************)
(* Properties of describe across granularities (SpecRead).                 *)
(***************************************************************************)
\* the cursor holds what a read of the row rown of the table stages
HasRead(rown) ==
    /\ table.live
    /\ row.live
    /\ ~Raises(RowCheck(table, rown))
    /\ row.fields = table_row_read(row, table, rown).row.fields

\* C29: for an array-valued cell of a table, table_row_get_cell_info on a
\* cursor that has read the row of the cell reports the data_type, the
\* n_dim and the dims that table_get_cell_info reports for the cell, and
\* that data_type is the tag table_get_cell dispatches on
C29_DescribeAlike ==
    [][ \A rown \in RowNumbers :
          LET info == table_get_cell_info(table, SB(io'.name), rown)
          IN  (/\ last'.fn = "table_row_get_cell_info"
               /\ last'.ret = 0
               /\ HasRead(rown)
               /\ HasColumn(table, io'.name)
               /\ table.cols[io'.name].array
               /\ table.cells[io'.name][rown].def
               /\ ~Raises(info.e))
              => /\ io'.out.data_type = info.out.data_type
                 /\ io'.out.n_dim = info.out.n_dim
                 /\ io'.out.dims = info.out.dims
                 /\ info.out.data_type
                        = table_get_cell(table, SB(io'.name), rown).tag ]_vars

(***************************************************************************)
(* Properties of an ExcInfo that many calls share (SpecExc).               *)
(***************************************************************************)
\* the last call took an ExcInfo and returned its success value
ReturnedSuccess ==
    /\ last.fn \in FnNames
    /\ EntryPoints[last.fn].exc
    /\ last.returns = "value"
    /\ IF EntryPoints[last.fn].ret = "ptr" THEN last.ret # NULL ELSE last.ret = 0

\* C30: a call that returns success leaves the ExcInfo as it was, so that
\* after any sequence of calls on one ExcInfo the message is that of the
\* last call that failed (or the initial content); a call that changes the
\* message had native code raise and did not return success; and an entry
\* point that hands its work to a tablerec_* entry point returns the
\* status that one returned
C30_SuccessLeavesExcInfo ==
    [][ /\ ReturnedSuccess' => exc' = exc
        /\ exc' # exc => (LastRaised' /\ ~last'.escaped /\ ~ReturnedSuccess')
        /\ (last'.fn \in DOMAIN Delegate /\ io'.inner.fn # "")
               => /\ io'.inner.fn = Delegate[last'.fn]
                  /\ last'.ret = io'.inner.ret ]_vars

\* table_put_keyword has returned the 0 of tablerec_put_field, and the
\* ExcInfo still holds the message of an earlier call that failed
C30_Witness ==
    /\ last.fn = "table_put_keyword"
    /\ ReturnedSuccess
    /\ io.inner = [fn |-> "tablerec_put_field", ret |-> 0]
    /\ exc.message = handle_exception(StdExc(Repeat("e", 12)), Zeroed)

====
